---- MODULE Spec2Model ----
(***************************************************************************)
(* Model of the reservation tool's scheduling engine:                      *)
(*   src/src/scheduler.py     BookingScheduler (schedule store + loop)     *)
(*   src/src/booking_http.py  FastBookingClient (multi-court executor)     *)
(*                                                                         *)
(* Time is a simulated clock in whole seconds.  time.sleep(d) returns when *)
(* the clock has advanced by exactly d; a network call (prepare_booking,   *)
(* book_slot) takes between 0 and MaxCallDelay seconds.                    *)
(* Python None is the string "None".  Every intent carries a ghost field   *)
(* uid (the identity of the logical intent), which the program does not    *)
(* have; only the ghost variables invoked and cancelled are set from it.   *)
(***************************************************************************)
EXTENDS Integers, Sequences, FiniteSets, TLC

(* ------------------------------ bounds -------------------------------- *)
MaxIntents == 2      \* schedule_booking calls in one behaviour
MaxClock == 100      \* the loop takes no sleep that ends after this time
MaxCallDelay == 1    \* longest duration of one network call, seconds
MaxMatches == 3      \* ids found on the facilities page (with repeats)
MaxLen == 2          \* length of the schedules of the round-trip check
MaxStarts == 4       \* scheduler daemons the dashboard starts in one behaviour

(* ------------------------- program constants -------------------------- *)
BOOKING_WINDOW_HOURS == 72
PREP_SECONDS == 10
IDLE_SLEEP == 60
SLEEP_CAP == 60

None == "None"

Hours(h) == h * 3600

(* The facility table: two known keys; any other key is unknown. *)
FACILITIES == {"ARC_PICKLEBALL_BADMINTON", "ARC_MP1"}
FacilityKeys == FACILITIES \cup {"NO_SUCH_FACILITY"}
Courts == {"A", "B", "C"}

SlotLabels == {"6 PM - 7 PM"}

(* ------------------- datetime <-> ISO-8601 text ----------------------- *)
(* A datetime is a number of seconds since the model's epoch; its ISO text *)
(* is the tuple <<day, hour, minute, second>> of the printed fields.       *)
isoformat(dt) ==
    << dt \div 86400, (dt % 86400) \div 3600, (dt % 3600) \div 60, dt % 60 >>

(* mutant of fromisoformat: the seconds of the text are not read *)
fromisoformatNoSeconds(s) == s[1] * 86400 + s[2] * 3600 + s[3] * 60

fromisoformat(s) == s[1] * 86400 + s[2] * 3600 + s[3] * 60 + s[4]

(* json.dumps / json.loads of an Optional[str]: null is <<>>, "x" is <<x>> *)
json_dumps_opt(v) == IF v = None THEN << >> ELSE << v >>

json_loads_opt(j) == IF Len(j) = 0 THEN None ELSE j[1]

(* ------------------------- ScheduledBooking --------------------------- *)
ScheduledBooking(uid, facility, target_date, slot_time, execute_at, facility_id) ==
    [ uid |-> uid, facility |-> facility, target_date |-> target_date,
      slot_time |-> slot_time, execute_at |-> execute_at,
      facility_id |-> facility_id, status |-> "pending",
      error |-> None, booking_id |-> None ]

(* one entry of the "bookings" array written by _save_schedule *)
SaveEntry(b) ==
    [ uid |-> b.uid,
      facility |-> b.facility,
      target_date |-> isoformat(b.target_date),
      slot_time |-> b.slot_time,
      execute_at |-> isoformat(b.execute_at),
      facility_id |-> json_dumps_opt(b.facility_id),
      status |-> b.status,
      error |-> json_dumps_opt(b.error),
      booking_id |-> json_dumps_opt(b.booking_id) ]

(* one ScheduledBooking rebuilt by _load_schedule *)
LoadEntry(j) ==
    [ uid |-> j.uid,
      facility |-> j.facility,
      target_date |-> fromisoformat(j.target_date),
      slot_time |-> j.slot_time,
      execute_at |-> fromisoformat(j.execute_at),
      facility_id |-> json_loads_opt(j.facility_id),
      status |-> j.status,
      error |-> json_loads_opt(j.error),
      booking_id |-> json_loads_opt(j.booking_id) ]

(* The schedule file: absent, or the JSON document {"bookings": [...]}, or *)
(* a text that json.loads rejects (parses = FALSE).                        *)
NoFile == [ exists |-> FALSE, parses |-> TRUE, bookings |-> << >> ]

(* the file while write_text has opened it for writing and written nothing *)
Truncated == [ exists |-> TRUE, parses |-> FALSE, bookings |-> << >> ]

_save_schedule(bookings) ==
    [ exists |-> TRUE, parses |-> TRUE,
      bookings |-> [ i \in 1..Len(bookings) |-> SaveEntry(bookings[i]) ] ]

(* mutant of _load_schedule: the list in memory is kept when the file does *)
(* not parse                                                               *)
_load_scheduleKeep(f, mem) ==
    IF ~f.exists THEN mem
    ELSE IF ~f.parses THEN mem
    ELSE [ i \in 1..Len(f.bookings) |-> LoadEntry(f.bookings[i]) ]

(* the list held in memory after _load_schedule; mem is the list before *)
_load_schedule(f, mem) ==
    IF ~f.exists THEN mem
    ELSE IF ~f.parses THEN << >>
    ELSE [ i \in 1..Len(f.bookings) |-> LoadEntry(f.bookings[i]) ]

(* ------------------------- FastBookingClient -------------------------- *)
(* What the remote system answers during one call of the client:           *)
(*   http_ok   the facilities page is served (raise_for_status passes)     *)
(*   matches   the ids the page's pattern finds, in page order             *)
(*   st[c]     court c: its slot page fails, lacks the label, or lists the *)
(*             label and answers the reservation request with the response *)
Responses == {"resp_success", "resp_failure", "resp_http_error",
              "resp_bad_json", "resp_exception"}
CourtStates == {"fetch_error", "no_slot"} \cup Responses

(* The table FACILITIES[key]["facility_id"] as the class defines it. *)
InitialTable == [ f \in FACILITIES |-> IF f = "ARC_MP1" THEN "A" ELSE None ]

RECURSIVE Dedup(_)
(* list(dict.fromkeys(matches)): first occurrences, order kept *)
Dedup(s) ==
    IF s = << >> THEN << >>
    ELSE LET rest == Dedup(SubSeq(s, 1, Len(s) - 1))
             x == s[Len(s)]
         IN IF \E i \in 1..Len(rest) : rest[i] = x THEN rest
            ELSE Append(rest, x)

(* [ok, ids]: ok = FALSE stands for the exception the method raises *)
_get_all_facility_ids(w) ==
    IF ~w.http_ok \/ Len(w.matches) = 0
    THEN [ ok |-> FALSE, ids |-> << >> ]
    ELSE [ ok |-> TRUE, ids |-> Dedup(w.matches) ]

(* [ok, id]: the first match of the page *)
_get_facility_id(w) ==
    IF ~w.http_ok \/ Len(w.matches) = 0
    THEN [ ok |-> FALSE, id |-> None ]
    ELSE [ ok |-> TRUE, id |-> w.matches[1] ]

(* random.choice(seq) with the random draw pick >= 1 *)
random_choice(seq, pick) == seq[((pick - 1) % Len(seq)) + 1]

(* the court to try first, or "raise" for the ValueError of the else branch *)
_select_initial_court(all_facility_ids, known_facility_id, strategy, pick) ==
    IF strategy = "cached" /\ known_facility_id # None
       /\ \E i \in 1..Len(all_facility_ids) : all_facility_ids[i] = known_facility_id
    THEN known_facility_id
    ELSE IF strategy = "random" THEN random_choice(all_facility_ids, pick)
    ELSE IF strategy = "first" THEN all_facility_ids[1]
    ELSE "raise"

(* mutant of _submit_booking: every answer with status 200 and a JSON body *)
(* counts as success                                                       *)
_submit_bookingStatusOnly(resp) == resp \in {"resp_success", "resp_failure"}

(* TRUE iff the reservation request reports success *)
_submit_booking(resp) == resp = "resp_success"

(* mutant of Submits: the request is sent in a dry run too *)
SubmitsAlways(w, court, dry_run) == w.st[court] \in Responses

(* the request is sent iff the slot page lists the label and not dry_run *)
Submits(w, court, dry_run) == w.st[court] \in Responses /\ ~dry_run

(* mutant of _attempt_booking_on_court: a dry run does not look for the    *)
(* label on the slot page                                                  *)
_attempt_booking_on_courtDryBlind(w, court, dry_run) ==
    IF w.st[court] = "fetch_error" THEN None
    ELSE IF dry_run THEN court
    ELSE IF w.st[court] = "no_slot" THEN None
    ELSE IF _submit_booking(w.st[court]) THEN court
    ELSE None

(* the court id on success, None on a miss *)
_attempt_booking_on_court(w, court, dry_run) ==
    IF w.st[court] = "fetch_error" THEN None
    ELSE IF w.st[court] = "no_slot" THEN None
    ELSE IF dry_run THEN court
    ELSE IF _submit_booking(w.st[court]) THEN court
    ELSE None

RECURSIVE FallbackNoStop(_, _, _, _)
(* mutant of Fallback: the loop goes on after a court accepted *)
FallbackNoStop(ids, initial_court, w, dry_run) ==
    IF ids = << >> THEN << >>
    ELSE IF Head(ids) = initial_court
         THEN FallbackNoStop(Tail(ids), initial_court, w, dry_run)
    ELSE << Head(ids) >> \o FallbackNoStop(Tail(ids), initial_court, w, dry_run)

RECURSIVE FallbackNoSkip(_, _, _, _)
(* mutant of Fallback: the loop does not skip the court already tried *)
FallbackNoSkip(ids, initial_court, w, dry_run) ==
    IF ids = << >> THEN << >>
    ELSE IF _attempt_booking_on_court(w, Head(ids), dry_run) # None
         THEN << Head(ids) >>
    ELSE << Head(ids) >> \o FallbackNoSkip(Tail(ids), initial_court, w, dry_run)

RECURSIVE Fallback(_, _, _, _)
(* the courts the fallback loop attempts, in order, up to the first success *)
Fallback(ids, initial_court, w, dry_run) ==
    IF ids = << >> THEN << >>
    ELSE IF Head(ids) = initial_court
         THEN Fallback(Tail(ids), initial_court, w, dry_run)
    ELSE IF _attempt_booking_on_court(w, Head(ids), dry_run) # None
         THEN << Head(ids) >>
    ELSE << Head(ids) >> \o Fallback(Tail(ids), initial_court, w, dry_run)

(* mutant of Outcome: the first court attempted is remembered on success *)
OutcomeFirst(tbl, facility, w, dry_run, resolved, initial, attempts) ==
    LET last == IF attempts = << >> THEN None
                ELSE _attempt_booking_on_court(w, attempts[Len(attempts)], dry_run)
    IN [ ret |-> IF last # None THEN "True" ELSE "False",
         resolved |-> resolved,
         initial |-> initial,
         attempts |-> attempts,
         submits |-> SelectSeq(attempts, LAMBDA c : Submits(w, c, dry_run)),
         table |-> IF last # None THEN [ tbl EXCEPT ![facility] = attempts[1] ]
                   ELSE tbl ]

(* the outcome of a run that attempted the courts `attempts` *)
Outcome(tbl, facility, w, dry_run, resolved, initial, attempts) ==
    LET last == IF attempts = << >> THEN None
                ELSE _attempt_booking_on_court(w, attempts[Len(attempts)], dry_run)
    IN [ ret |-> IF last # None THEN "True" ELSE "False",
         resolved |-> resolved,
         initial |-> initial,
         attempts |-> attempts,
         submits |-> SelectSeq(attempts, LAMBDA c : Submits(w, c, dry_run)),
         table |-> IF last # None THEN [ tbl EXCEPT ![facility] = last ]
                   ELSE tbl ]

Raised(tbl) ==
    [ ret |-> "raise", resolved |-> << >>, initial |-> None,
      attempts |-> << >>, submits |-> << >>, table |-> tbl ]

(* book_slot: ret is "True", "False" or "raise" (an exception leaves it) *)
book_slot(tbl, facility, facility_id, dry_run, court_selection, w, pick) ==
    IF facility \notin FACILITIES THEN Raised(tbl)
    ELSE IF facility_id # None
    THEN Outcome(tbl, facility, w, dry_run, << >>, None, << facility_id >>)
    ELSE LET found == _get_all_facility_ids(w)
             all_facility_ids == found.ids
         IN IF ~found.ok
            THEN Outcome(tbl, facility, w, dry_run, << >>, None, << >>)
            ELSE IF Len(all_facility_ids) = 1
            THEN Outcome(tbl, facility, w, dry_run, all_facility_ids, None,
                         << all_facility_ids[1] >>)
            ELSE LET initial_court ==
                         _select_initial_court(all_facility_ids, tbl[facility],
                                               court_selection, pick)
                 IN IF initial_court = "raise" THEN Raised(tbl)
                    ELSE IF _attempt_booking_on_court(w, initial_court, dry_run) # None
                    THEN Outcome(tbl, facility, w, dry_run, all_facility_ids,
                                 initial_court, << initial_court >>)
                    ELSE Outcome(tbl, facility, w, dry_run, all_facility_ids,
                                 initial_court,
                                 << initial_court >> \o
                                 Fallback(all_facility_ids, initial_court, w, dry_run))

(* prepare_booking: [ok, id, table]; ok = FALSE stands for a raised exception *)
prepare_booking(tbl, facility, facility_id, w) ==
    IF facility \notin FACILITIES THEN [ ok |-> FALSE, id |-> None, table |-> tbl ]
    ELSE IF facility_id # None THEN [ ok |-> TRUE, id |-> facility_id, table |-> tbl ]
    ELSE LET found == _get_all_facility_ids(w)
         IN IF found.ok
            THEN IF Len(found.ids) = 1
                 THEN [ ok |-> TRUE, id |-> found.ids[1],
                        table |-> [ tbl EXCEPT ![facility] = found.ids[1] ] ]
                 ELSE [ ok |-> TRUE, id |-> None, table |-> tbl ]
            ELSE IF tbl[facility] # None
                 THEN [ ok |-> TRUE, id |-> tbl[facility], table |-> tbl ]
                 ELSE LET one == _get_facility_id(w)
                      IN IF one.ok
                         THEN [ ok |-> TRUE, id |-> one.id,
                                table |-> [ tbl EXCEPT ![facility] = one.id ] ]
                         ELSE [ ok |-> FALSE, id |-> None, table |-> tbl ]

(* ------------------------- credentials -------------------------------- *)
(* Times are seconds from an origin shortly before the model starts; the   *)
(* value 0 of time.time() lies more than any interval before every one of  *)
(* them.  A credential set is modelled by auth_time, the time it was       *)
(* issued.                                                                 *)
cookie_check_interval == 300

MAX_AGE_HOURS == 8

LongAgo == 0 - Hours(24)

(* the .session file: absent, unreadable (being written, damaged) or good *)
SessionStates == {"absent", "corrupt", "good"}

Session(state, mtime, auth_time) ==
    [ state |-> state, mtime |-> mtime, auth_time |-> auth_time ]

(* The scheduler process right after BookingScheduler() at time t, with a  *)
(* session file written at the origin: no marker, client just loaded,      *)
(* last_cookie_check = 0.  reloads is a ghost: the calls of reload_cookies *)
(* in the last iteration of the loop.                                      *)
StartCred(t) ==
    [ marker |-> FALSE,
      session |-> Session("good", 0, 0),
      client_auth |-> 0,
      client_loaded_at |-> t,
      last_cookie_check |-> LongAgo,
      reloads |-> 0 ]

(* FastBookingClient() succeeds iff the session file exists and unpickles *)
ClientLoads(session) == session.state = "good"

(* mutant of reload_cookies: client_loaded_at is stamped before the client *)
(* is built                                                                *)
reload_cookiesStampFirst(c, t) ==
    IF ClientLoads(c.session)
    THEN [ c EXCEPT !.client_auth = c.session.auth_time,
                    !.client_loaded_at = t,
                    !.last_cookie_check = t,
                    !.reloads = c.reloads + 1 ]
    ELSE [ c EXCEPT !.client_loaded_at = t, !.reloads = c.reloads + 1 ]

(* reload_cookies(force) at time t *)
reload_cookies(c, t) ==
    IF ClientLoads(c.session)
    THEN [ c EXCEPT !.client_auth = c.session.auth_time,
                    !.client_loaded_at = t,
                    !.last_cookie_check = t,
                    !.reloads = c.reloads + 1 ]
    ELSE [ c EXCEPT !.reloads = c.reloads + 1 ]

(* mutant of _check_reload_signal: the marker is removed only after a     *)
(* reload that succeeded                                                   *)
_check_reload_signalKeepOnFailure(c, t) ==
    IF c.marker
    THEN [ reload_cookies(c, t) EXCEPT !.marker = ~ClientLoads(c.session) ]
    ELSE c

(* _check_reload_signal() at time t *)
_check_reload_signal(c, t) ==
    IF c.marker
    THEN [ reload_cookies(c, t) EXCEPT !.marker = FALSE ]
    ELSE c

(* mutant of _reload_cookies_if_needed: the modification time is not      *)
(* compared with client_loaded_at                                          *)
_reload_cookies_if_neededAnyFile(c, t) ==
    IF t - c.last_cookie_check < cookie_check_interval THEN c
    ELSE LET checked == [ c EXCEPT !.last_cookie_check = t ]
         IN IF c.session.state = "absent" THEN checked
            ELSE reload_cookies(checked, t)

(* _reload_cookies_if_needed() at time t *)
_reload_cookies_if_needed(c, t) ==
    IF t - c.last_cookie_check < cookie_check_interval THEN c
    ELSE LET checked == [ c EXCEPT !.last_cookie_check = t ]
         IN IF c.session.state = "absent" THEN checked
            ELSE IF c.session.mtime > c.client_loaded_at
                 THEN reload_cookies(checked, t)
                 ELSE checked

(* lines 184-186 of run_scheduler, at the top of an iteration *)
IterationHead(c, t) ==
    _reload_cookies_if_needed(_check_reload_signal([ c EXCEPT !.reloads = 0 ], t), t)

(* SessionManager.load_session(max_age_hours) at time t with the liveness  *)
(* probe answering probe: [ret, session]                                   *)
load_session(session, t, max_age_hours, probe) ==
    IF session.state = "absent" THEN [ ret |-> FALSE, session |-> session ]
    ELSE IF session.state = "corrupt"
    THEN [ ret |-> FALSE, session |-> Session("absent", session.mtime, session.auth_time) ]
    ELSE IF t - session.auth_time > Hours(max_age_hours)
    THEN [ ret |-> FALSE, session |-> Session("absent", session.mtime, session.auth_time) ]
    ELSE IF probe THEN [ ret |-> TRUE, session |-> session ]
    ELSE [ ret |-> FALSE, session |-> Session("absent", session.mtime, session.auth_time) ]

(* CookieValidator.validate_cookies(client, session_file): result['valid'] *)
(* with the probe _get_all_facility_ids answering probe                    *)
validate_cookies(session, probe) ==
    IF session.state = "absent" THEN FALSE ELSE probe

(* --------------- the scheduler daemon and its pid file ---------------- *)
(* The dashboard starts run_scheduler.py as a process of its own and keeps *)
(* its pid in .scheduler.pid, << >> when the file is absent.  Pids are     *)
(* 1, 2, ... in the order of the starts.  at[r] is the place of request    *)
(* thread r in ensure_scheduler_running: "idle" outside, "start" between   *)
(* is_scheduler_running() = False and start_scheduler_process().           *)
Requests == {1, 2, 3}

NoDaemons ==
    [ pid_file |-> << >>, live |-> {}, started |-> 0,
      at |-> [ r \in Requests |-> "idle" ] ]

(* is_scheduler_running(): [ret, pid_file]; os.kill(pid, 0) raises for a   *)
(* process that is gone, and the pid file is then removed                  *)
is_scheduler_running(d) ==
    IF d.pid_file = << >> THEN [ ret |-> FALSE, pid_file |-> << >> ]
    ELSE IF d.pid_file[1] \in d.live THEN [ ret |-> TRUE, pid_file |-> d.pid_file ]
    ELSE [ ret |-> FALSE, pid_file |-> << >> ]

(* start_scheduler_process(): subprocess.Popen and the write of its pid *)
start_scheduler_process(d) ==
    [ d EXCEPT !.started = d.started + 1,
               !.live = d.live \cup { d.started + 1 },
               !.pid_file = << d.started + 1 >> ]

(* ---------------------------- state ----------------------------------- *)
VARIABLES
    clock,      \* the simulated clock (datetime.now() / time.time())
    file,       \* bookings_schedule.json
    sched,      \* scheduled_bookings of the scheduler process
    ui,         \* scheduled_bookings of the dashboard process
    pc,         \* position of the scheduler process in run_scheduler
    daemon,     \* the daemon argument of run_scheduler
    cur,        \* index in sched of next_booking (0: none)
    wait,       \* argument of the time.sleep the loop is in
    now,        \* local now of _execute_booking (line 257)
    invoked,    \* ghost: the uids of the intents the loop has called book_slot for
    nextUid,    \* ghost: number of intents created so far
    lastOp,     \* the last call of the dashboard process (or of a credential
                \* tool, or the last crash of the scheduler) and what it returned
    cancelled,  \* ghost: the uids of the intents cancel_booking removed
    table,      \* FACILITIES[key]["facility_id"] of the process that books
    bk,         \* ghost: the last direct call of book_slot and its outcome
    cred,       \* the credential side: marker file, .session file, client
    daemons     \* the scheduler daemons the dashboard started: .scheduler.pid,
                \* the live processes, each request's place in
                \* ensure_scheduler_running

vars == << clock, file, sched, ui, pc, daemon, cur, wait, now, invoked,
           nextUid, lastOp, cancelled, table, bk, cred, daemons >>

loopVars == << clock, sched, pc, daemon, daemons, cur, wait, now, invoked >>

(* ----------------------- inputs of the operations --------------------- *)
StartTimes == {35}
T30 == Hours(BOOKING_WINDOW_HOURS) + 30
T50 == Hours(BOOKING_WINDOW_HOURS) + 50
(* <<facility, target_date, execute_at>> of the schedule_booking calls; the  *)
(* execute_at argument is << >> for None and << t >> for the datetime t.     *)
(* At the start time 35 the four timings are: overdue (30), inside the      *)
(* preparation margin (40), 15 s ahead (50), and later than the target.     *)
ScheduleInputs ==
    { << "ARC_PICKLEBALL_BADMINTON", T30, << >> >>,
      << "ARC_PICKLEBALL_BADMINTON", T50, << >> >>,
      << "ARC_PICKLEBALL_BADMINTON", T50, << 40 >> >>,
      << "ARC_PICKLEBALL_BADMINTON", T30, << T30 + 60 >> >>,
      << "NO_SUCH_FACILITY", T30, << >> >> }
Strategies == {"random", "first", "cached"}
(* a network call returns at once or after MaxCallDelay seconds *)
CallDelays == {0, MaxCallDelay}

(* what the remote system answers to the scheduler's client *)
LoopWorlds ==
    { [ http_ok |-> h, matches |-> m, st |-> [ c \in Courts |-> s ] ] :
        h \in {TRUE}, m \in { << "A" >>, << "A", "B" >> },
        s \in { "no_slot", "resp_success" } }

NoOp == [ op |-> "none", ret |-> FALSE ]

NoCall == [ facility |-> None, facility_id |-> None, dry_run |-> FALSE,
            court_selection |-> None, w |-> [ http_ok |-> FALSE, matches |-> << >>,
                                              st |-> [ c \in Courts |-> "no_slot" ] ],
            before |-> InitialTable, out |-> Raised(InitialTable) ]

Init ==
    /\ clock \in StartTimes
    /\ file = NoFile
    /\ sched = << >>
    /\ ui = << >>
    /\ pc = "top"
    /\ daemon \in BOOLEAN
    /\ cur = 0
    /\ wait = 0
    /\ now = 0
    /\ invoked = {}
    /\ nextUid = 0
    /\ lastOp = NoOp
    /\ cancelled = {}
    /\ table = InitialTable
    /\ bk = NoCall
    /\ cred = StartCred(clock)
    /\ daemons = NoDaemons

(* --------------------- the dashboard process -------------------------- *)
(* mutant of DefaultExecuteAt: timedelta(minutes=...) for timedelta(hours=...) *)
DefaultExecuteAtMinutes(target_date, execute_at) ==
    IF execute_at = << >> THEN target_date - BOOKING_WINDOW_HOURS * 60
    ELSE execute_at[1]

(* execute_at of a new intent: the argument, or 72 hours before the target *)
DefaultExecuteAt(target_date, execute_at) ==
    IF execute_at = << >> THEN target_date - Hours(BOOKING_WINDOW_HOURS)
    ELSE execute_at[1]

(* schedule_booking(facility, target_date, slot_time, facility_id, execute_at) *)
schedule_booking(facility, target_date, slot_time, facility_id, execute_at) ==
    /\ nextUid < MaxIntents
    /\ LET booking == ScheduledBooking(nextUid + 1, facility, target_date, slot_time,
                                       DefaultExecuteAt(target_date, execute_at),
                                       facility_id)
       IN /\ ui' = Append(ui, booking)
          /\ file' = _save_schedule(ui')
    /\ nextUid' = nextUid + 1
    /\ lastOp' = [ op |-> "schedule", ret |-> TRUE ]
    /\ UNCHANGED << loopVars, cancelled, table, bk, cred >>

(* list_scheduled_bookings() *)
list_scheduled_bookings ==
    /\ ui' = _load_schedule(file, ui)
    /\ lastOp' = [ op |-> "list", ret |-> TRUE ]
    /\ UNCHANGED << loopVars, file, nextUid, cancelled, table, bk, cred >>

(* the list after scheduled_bookings.pop(index); index counts from 0 *)
Pop(bookings, index) ==
    [ i \in 1..(Len(bookings) - 1) |->
        IF i <= index THEN bookings[i] ELSE bookings[i + 1] ]

Cancellable(bookings, index) ==
    /\ 0 <= index
    /\ index < Len(bookings)
    /\ bookings[index + 1].status = "pending"

(* cancel_booking(index) *)
cancel_booking(index) ==
    /\ IF Cancellable(ui, index)
       THEN /\ ui' = Pop(ui, index)
            /\ file' = _save_schedule(ui')
       ELSE UNCHANGED << ui, file >>
    /\ lastOp' = [ op |-> "cancel", ret |-> Cancellable(ui, index) ]
    /\ cancelled' = IF Cancellable(ui, index)
                    THEN cancelled \cup { ui[index + 1].uid }
                    ELSE cancelled
    /\ UNCHANGED << loopVars, nextUid, table, bk, cred >>

(* --------------------- the scheduler process -------------------------- *)
(* The process has built its BookingScheduler on an absent schedule file   *)
(* and is at the top of the while loop of run_scheduler(daemon).           *)
Pending(bookings) == { i \in 1..Len(bookings) : bookings[i].status = "pending" }

(* mutant of NextBooking: the first pending booking of the list *)
NextBookingFirst(bookings) ==
    CHOOSE i \in Pending(bookings) : \A j \in Pending(bookings) : i <= j

(* min(pending, key=execute_at): the first of the earliest, as an index *)
NextBooking(bookings) ==
    CHOOSE i \in Pending(bookings) :
        \A j \in Pending(bookings) :
            \/ bookings[i].execute_at < bookings[j].execute_at
            \/ (bookings[i].execute_at = bookings[j].execute_at /\ i <= j)

Min(a, b) == IF a < b THEN a ELSE b

(* what prepare_booking can return for the booking, over the answers of    *)
(* the remote system                                                       *)
Prepared(booking) ==
    { prepare_booking(table, booking.facility, booking.facility_id, w) :
        w \in LoopWorlds }

(* what book_slot can return for the booking (dry_run = False and the      *)
(* default court_selection = "random")                                     *)
Booked(booking) ==
    { book_slot(table, booking.facility, booking.facility_id, FALSE, "random", w, pick) :
        w \in LoopWorlds, pick \in 1..MaxMatches }

(* the list when prepare_booking is called: booking.status = "executing"   *)
(* (line 242) comes before the warm-up (lines 245-253)                     *)
AtWarmUp(bookings, i) ==
    [ bookings EXCEPT ![i] = [ bookings[i] EXCEPT !.status = "executing" ] ]

(* mutant of ExecPrepare: wait_time is taken from the time before warm-up *)
ExecPrepareStaleNow(bookings, i, prep, d) ==
    LET booking == bookings[i]
    IN [ sched |-> [ bookings EXCEPT ![i] = [ booking EXCEPT !.status = "executing" ] ],
         table |-> prep.table,
         now |-> clock + d,
         wait |-> booking.execute_at - clock ]

(* what _execute_booking does up to its sleep (lines 241-262): the state    *)
(* [sched, table, now, wait] after warm-up that takes d seconds            *)
ExecPrepare(bookings, i, prep, d) ==
    LET booking == bookings[i]
        fid == IF prep.ok /\ prep.id # None THEN prep.id ELSE booking.facility_id
    IN [ sched |-> [ AtWarmUp(bookings, i) EXCEPT ![i].facility_id = fid ],
         table |-> prep.table,
         now |-> clock + d,
         wait |-> booking.execute_at - (clock + d) ]

(* mutant of SleepTime: the preparation margin is not subtracted *)
SleepTimeNoMargin(time_until) == Min(time_until, SLEEP_CAP)

(* the sleep the loop takes when the next booking is time_until away *)
SleepTime(time_until) == Min(time_until - PREP_SECONDS, SLEEP_CAP)

(* mutant of Decision: the preparation margin is not looked at *)
DecisionNoMargin(loaded) ==
    IF Pending(loaded) = {} THEN "idle" ELSE "due"

(* the decision of one pass on the reloaded list: "idle", "early" or "due" *)
Decision(loaded) ==
    IF Pending(loaded) = {} THEN "idle"
    ELSE IF loaded[NextBooking(loaded)].execute_at - clock > PREP_SECONDS THEN "early"
    ELSE "due"

(* One pass of the while loop of run_scheduler that executes nothing: from *)
(* _load_schedule to the sleep of the loop or to the break.                *)
LoopPass ==
    /\ pc = "top"
    /\ LET loaded == _load_schedule(file, sched)
           sleep_time ==
               IF Decision(loaded) = "idle" THEN IDLE_SLEEP
               ELSE SleepTime(loaded[NextBooking(loaded)].execute_at - clock)
       IN /\ Decision(loaded) # "due"
          /\ sched' = loaded
          /\ IF daemon
             THEN /\ clock + sleep_time <= MaxClock
                  /\ pc' = "sleep" /\ wait' = sleep_time
             ELSE pc' = "exit" /\ wait' = 0
    /\ cred' = IterationHead(cred, clock)
    /\ UNCHANGED << clock, file, ui, daemon, daemons, cur, now, invoked, nextUid, lastOp, cancelled,
                    table, bk >>

(* One pass that finds the next booking due: from _load_schedule into      *)
(* _execute_booking, up to its sleep (skipped when wait_time <= 0).        *)
LoopExecute(d) ==
    /\ pc = "top"
    /\ LET loaded == _load_schedule(file, sched)
       IN /\ Decision(loaded) = "due"
          /\ \E prep \in Prepared(loaded[NextBooking(loaded)]) :
             LET ex == ExecPrepare(loaded, NextBooking(loaded), prep, d)
             IN /\ sched' = ex.sched
                /\ table' = ex.table
                /\ cur' = NextBooking(loaded)
                /\ clock' = clock + d
                /\ now' = ex.now
                /\ IF ex.wait > 0
                   THEN pc' = "wait" /\ wait' = ex.wait
                   ELSE pc' = "book" /\ wait' = 0
    /\ cred' = IterationHead(cred, clock)
    /\ UNCHANGED << file, ui, daemon, daemons, invoked, nextUid, lastOp, cancelled, bk >>

(* time.sleep(sleep_time) of the loop returns *)
LoopWake ==
    /\ pc = "sleep"
    /\ clock' = clock + wait
    /\ pc' = "top"
    /\ wait' = 0
    /\ UNCHANGED << file, sched, ui, daemon, daemons, cur, now, invoked, nextUid,
                    lastOp, cancelled, table, bk, cred >>

(* mutant of ExecWait: the sleep returns one second early *)
ExecWaitShort ==
    /\ pc = "wait"
    /\ clock' = clock + wait - 1
    /\ pc' = "book"
    /\ wait' = 0
    /\ UNCHANGED << file, sched, ui, daemon, daemons, cur, now, invoked, nextUid,
                    lastOp, cancelled, table, bk, cred >>

(* time.sleep(wait_time) of _execute_booking returns *)
ExecWait ==
    /\ pc = "wait"
    /\ clock' = clock + wait
    /\ pc' = "book"
    /\ wait' = 0
    /\ UNCHANGED << file, sched, ui, daemon, daemons, cur, now, invoked, nextUid,
                    lastOp, cancelled, table, bk, cred >>

(* str(e) of the exception book_slot raised, by its kind *)
ErrorOf(booking, out) ==
    IF out.ret = "True" THEN booking.error
    ELSE IF out.ret = "False" THEN "Booking returned False"
    ELSE IF booking.facility \notin FACILITIES THEN "Unknown facility"
    ELSE "Unknown strategy"

(* mutant of Recorded: the error is written whatever book_slot returned *)
RecordedErrorAlways(booking, out) ==
    [ booking EXCEPT !.status = IF out.ret = "True" THEN "success" ELSE "failed",
                     !.error = "Booking returned False" ]

(* mutant of Recorded: an exception of book_slot is recorded like the     *)
(* return value False                                                      *)
RecordedNoExcept(booking, out) ==
    [ booking EXCEPT !.status = IF out.ret = "True" THEN "success" ELSE "failed",
                     !.error = IF out.ret = "True" THEN booking.error
                               ELSE "Booking returned False" ]

(* the booking after book_slot returned or raised (lines 276-287) *)
Recorded(booking, out) ==
    [ booking EXCEPT !.status = IF out.ret = "True" THEN "success" ELSE "failed",
                     !.error = ErrorOf(booking, out) ]

(* The call of book_slot at the current clock time, which takes d seconds, *)
(* the recording of its result, _save_schedule() and the end of the pass.  *)
ExecBook(d) ==
    /\ pc = "book"
    /\ \E out \in Booked(sched[cur]) :
          /\ invoked' = invoked \cup { sched[cur].uid }
          /\ sched' = [ sched EXCEPT ![cur] = Recorded(sched[cur], out) ]
          /\ table' = out.table
    /\ file' = _save_schedule(sched')
    /\ clock' = clock + d
    /\ pc' = IF daemon THEN "top" ELSE "exit"
    /\ cur' = 0
    /\ now' = 0
    /\ UNCHANGED << ui, daemon, daemons, wait, nextUid, lastOp, cancelled, bk, cred >>

Schedule ==
    \E in \in ScheduleInputs, s \in SlotLabels :
        schedule_booking(in[1], in[2], s, None, in[3])

Cancel == \E index \in 0..MaxIntents : cancel_booking(index)

Execute == \E d \in CallDelays : LoopExecute(d)

Book == \E d \in CallDelays : ExecBook(d)

Next ==
    \/ Schedule
    \/ list_scheduled_bookings
    \/ Cancel
    \/ LoopPass
    \/ Execute
    \/ LoopWake
    \/ ExecWait
    \/ Book

Spec == Init /\ [][Next]_vars

(* The scheduler loop with a dashboard that only enqueues intents. *)
NextLoop ==
    \/ Schedule
    \/ LoopPass
    \/ Execute
    \/ LoopWake
    \/ ExecWait
    \/ Book

SpecLoop == Init /\ [][NextLoop]_vars

(* ------------------ book_slot called directly ------------------------- *)
(* The dashboard process and its booking client (web_ui.py, api/book): no  *)
(* scheduler loop; the facility table starts as the class defines it and   *)
(* lives as long as the process.                                           *)
RECURSIVE SeqsUpTo(_, _)
SeqsUpTo(S, n) ==
    IF n = 0 THEN { << >> }
    ELSE LET shorter == SeqsUpTo(S, n - 1)
         IN shorter \cup { Append(q, x) : q \in shorter, x \in S }

BookCourtStates == CourtStates

NoMatches == [ c \in Courts |-> "no_slot" ]

(* the answers of the courts in S; a court that is not asked has one value *)
AnswersOf(S) ==
    { st \in [ Courts -> BookCourtStates ] : \A c \in Courts \ S : st[c] = "no_slot" }

(* the answers of the remote system during one call *)
BookWorlds ==
    UNION { { [ http_ok |-> TRUE, matches |-> m, st |-> st ] :
                st \in AnswersOf({ m[i] : i \in 1..Len(m) }) } :
            m \in SeqsUpTo(Courts, MaxMatches) }
    \cup { [ http_ok |-> FALSE, matches |-> << >>, st |-> NoMatches ] }

(* The arguments and the answers of one call.  Where book_slot does not    *)
(* read an argument or an answer it has one value here: the facilities     *)
(* page and the strategy when facility_id is given, everything when the    *)
(* facility is unknown.                                                    *)
BookInputs ==
    { [ facility |-> "ARC_PICKLEBALL_BADMINTON", facility_id |-> None,
        dry_run |-> dr, court_selection |-> cs, w |-> w ] :
        dr \in BOOLEAN, cs \in Strategies, w \in BookWorlds }
    \cup
    UNION { { [ facility |-> "ARC_PICKLEBALL_BADMINTON", facility_id |-> c,
                dry_run |-> dr, court_selection |-> "random",
                w |-> [ http_ok |-> TRUE, matches |-> << >>, st |-> st ] ] :
                dr \in BOOLEAN, st \in AnswersOf({ c }) } :
            c \in Courts }
    \cup
    { [ facility |-> "NO_SUCH_FACILITY", facility_id |-> None,
        dry_run |-> FALSE, court_selection |-> "random",
        w |-> [ http_ok |-> FALSE, matches |-> << >>, st |-> NoMatches ] ] }

(* client.book_slot(facility, date, slot_time, facility_id, dry_run,       *)
(* court_selection); pick is the draw of random.choice                     *)
BookCall(in, pick) ==
    /\ bk' = [ facility |-> in.facility, facility_id |-> in.facility_id,
               dry_run |-> in.dry_run, court_selection |-> in.court_selection,
               w |-> in.w, before |-> table,
               out |-> book_slot(table, in.facility, in.facility_id, in.dry_run,
                                in.court_selection, in.w, pick) ]
    /\ table' = bk'.out.table
    /\ UNCHANGED << loopVars, file, ui, nextUid, lastOp, cancelled, cred >>

InitBook ==
    /\ clock = 0
    /\ file = NoFile
    /\ sched = << >>
    /\ ui = << >>
    /\ pc = "exit"
    /\ daemon = FALSE
    /\ cur = 0
    /\ wait = 0
    /\ now = 0
    /\ invoked = {}
    /\ nextUid = 0
    /\ lastOp = NoOp
    /\ cancelled = {}
    /\ table = InitialTable
    /\ bk = NoCall
    /\ cred = StartCred(clock)
    /\ daemons = NoDaemons

(* the request that called book_slot is answered; the next one may start *)
BookReturn ==
    /\ bk # NoCall
    /\ bk' = NoCall
    /\ UNCHANGED << loopVars, file, ui, nextUid, lastOp, cancelled, table, cred >>

(* one request at a time calls book_slot *)
Request ==
    /\ bk = NoCall
    /\ \E in \in BookInputs, pick \in 1..MaxMatches : BookCall(in, pick)

NextBook == Request \/ BookReturn

SpecBook == InitBook /\ [][NextBook]_vars

(* --------------- the schedule file between two processes -------------- *)
(* One process holds a schedule in memory and saves it; another process,   *)
(* whose list is empty, loads the file.                                    *)
RTDates == { << T30, 30 >>, << 90061, 3661 >>, << 59, 86399 >> }
RTOptionals == { << None, None, None >>, << "A", "Booking returned False", "ref" >> }
Statuses == {"pending", "executing", "success", "failed"}

RTIntents ==
    { [ uid |-> 0, facility |-> "ARC_PICKLEBALL_BADMINTON", target_date |-> dt[1],
        slot_time |-> "6 PM - 7 PM", execute_at |-> dt[2], facility_id |-> o[1],
        status |-> st, error |-> o[2], booking_id |-> o[3] ] :
        dt \in RTDates, o \in RTOptionals, st \in Statuses }

RTSave ==
    /\ lastOp.op = "none"
    /\ file' = _save_schedule(ui)
    /\ lastOp' = [ op |-> "save", ret |-> TRUE ]
    /\ UNCHANGED << loopVars, ui, nextUid, cancelled, table, bk, cred >>

RTLoad ==
    /\ lastOp.op = "save"
    /\ sched' = _load_schedule(file, sched)
    /\ lastOp' = [ op |-> "load", ret |-> TRUE ]
    /\ UNCHANGED << clock, pc, daemon, daemons, cur, wait, now, invoked, file, ui, nextUid,
                    cancelled, table, bk, cred >>

InitRT ==
    /\ clock = 0
    /\ file = NoFile
    /\ sched = << >>
    /\ ui \in SeqsUpTo(RTIntents, MaxLen)
    /\ pc = "exit"
    /\ daemon = FALSE
    /\ cur = 0
    /\ wait = 0
    /\ now = 0
    /\ invoked = {}
    /\ nextUid = 0
    /\ lastOp = NoOp
    /\ cancelled = {}
    /\ table = InitialTable
    /\ bk = NoCall
    /\ cred = StartCred(clock)
    /\ daemons = NoDaemons

NextRT == RTSave \/ RTLoad

SpecRT == InitRT /\ [][NextRT]_vars

(* ====================== the claims, C1 to C10 ========================= *)
(* In a state with pc = "book" the loop is about to call book_slot for     *)
(* sched[cur], and the call is made at the time clock.                     *)
Max(a, b) == IF a > b THEN a ELSE b

Gap == clock - sched[cur].execute_at

(* C1: book_slot is never invoked before the intent's execute_at: at every *)
(* call the clock is at or after execute_at (daemon and single-shot mode). *)
C1_NeverBeforeExecuteAt == pc = "book" => clock >= sched[cur].execute_at

(* C1 witness: a call made after the loop slept down to execute_at *)
C1_Witness == pc = "book" /\ now < sched[cur].execute_at /\ clock = sched[cur].execute_at

(* C2 as stated: at every call the gap is at most 1 second *)
C2_GapWithinTolerance == pc = "book" => Gap <= 1

(* C2 amended: book_slot is invoked at max(execute_at, end of warm-up): the *)
(* gap is 0 when warm-up ends at or before execute_at, and is otherwise    *)
(* the time by which the end of warm-up is past execute_at.                *)
C2_GapIsLateness == pc = "book" => Gap = Max(0, now - sched[cur].execute_at)

(* C2 witness: a call for an intent whose warm-up ended after execute_at,   *)
(* made more than the tolerance late                                       *)
C2_Witness == pc = "book" /\ now > sched[cur].execute_at /\ Gap > 1 /\ Gap = now - sched[cur].execute_at

(* C3: schedule_booking without execute_at stores execute_at = target_date *)
(* minus exactly 72 hours, with execute_at it stores the argument; the new *)
(* intent is pending, is appended at the end of the list, and the list is  *)
(* written to the schedule file.                                           *)
C3_ScheduleStores ==
    [][ \A in \in ScheduleInputs, s \in SlotLabels :
          schedule_booking(in[1], in[2], s, None, in[3]) =>
            /\ Len(ui') = Len(ui) + 1
            /\ SubSeq(ui', 1, Len(ui)) = ui
            /\ ui'[Len(ui')].facility = in[1]
            /\ ui'[Len(ui')].target_date = in[2]
            /\ ui'[Len(ui')].slot_time = s
            /\ ui'[Len(ui')].status = "pending"
            /\ ui'[Len(ui')].execute_at =
                 (IF in[3] = << >> THEN in[2] - 72 * 60 * 60 ELSE in[3][1])
            /\ file'.exists
            /\ _load_schedule(file', << >>) = ui' ]_vars

(* C3 witness: the file holds an intent stored with the default execute_at *)
(* and one stored with an explicit execute_at, both pending                *)
C3_Witness ==
    /\ lastOp.op = "schedule"
    /\ Len(ui) = 2
    /\ file = _save_schedule(ui)
    /\ ui[1].execute_at = ui[1].target_date - 259200
    /\ ui[2].execute_at = 40 /\ ui[2].target_date = T50
    /\ ui[2].status = "pending"

(* C4 as stated: every intent in the schedule store has                    *)
(* execute_at <= target_date                                               *)
C4_ExecuteAtNotAfterTarget ==
    \A i \in 1..Len(file.bookings) :
        fromisoformat(file.bookings[i].execute_at)
            <= fromisoformat(file.bookings[i].target_date)

(* C10 as stated, its part on later lists: an intent that cancel_booking   *)
(* removed is in no later result of list_scheduled_bookings                *)
C10_CancelledStaysAbsent ==
    lastOp.op = "list" => \A i \in 1..Len(ui) : ui[i].uid \notin cancelled

(* C10, the parts of the claim that hold: cancel_booking on a pending      *)
(* intent removes exactly that intent, writes the file and returns True;   *)
(* on any other status or index it returns False and changes neither the   *)
(* list in memory nor the file                                             *)
C10_CancelStep ==
    [][ \A index \in 0..MaxIntents :
          cancel_booking(index) =>
            IF index < Len(ui) /\ ui[index + 1].status = "pending"
            THEN /\ lastOp'.ret
                 /\ Len(ui') = Len(ui) - 1
                 /\ \A i \in 1..Len(ui') :
                      ui'[i] = IF i <= index THEN ui[i] ELSE ui[i + 1]
                 /\ _load_schedule(file', << >>) = ui'
            ELSE ~lastOp'.ret /\ ui' = ui /\ file' = file ]_vars

(* In a state with bk # NoCall a call of book_slot has just ended: bk holds *)
(* its arguments, the answers of the remote system, the facility table     *)
(* before the call and the outcome; table is the facility table after it.  *)
Called == bk # NoCall

(* the courts the facilities page lists *)
Catalog == { bk.w.matches[i] : i \in 1..Len(bk.w.matches) }

(* the place of court c in catalog order: its first occurrence on the page *)
CatalogIndex(c) ==
    CHOOSE i \in 1..Len(bk.w.matches) :
        /\ bk.w.matches[i] = c
        /\ \A j \in 1..(i - 1) : bk.w.matches[j] # c

(* court c has the slot and accepts the reservation *)
Accepts(c) ==
    \/ bk.w.st[c] = "resp_success"
    \/ bk.dry_run /\ bk.w.st[c] \in Responses

(* the call took the multi-resource path: known facility, no hint from the *)
(* caller, the page served, two or more resources                          *)
MultiPath ==
    /\ Called
    /\ bk.facility \in FACILITIES
    /\ bk.facility_id = None
    /\ bk.w.http_ok
    /\ Cardinality(Catalog) >= 2

Attempts == bk.out.attempts

(* C5 as stated: on the multi-resource path, for every strategy, if exactly *)
(* one resource k accepts and every other one misses, book_slot returns    *)
(* success on k and the initially selected resource is attempted first     *)
C5_FallbackReachesOnlyResource ==
    \A k \in Courts :
        ( /\ MultiPath
          /\ bk.court_selection \in Strategies
          /\ k \in Catalog
          /\ \A c \in Catalog : Accepts(c) <=> c = k )
        => /\ bk.out.ret = "True"
           /\ Attempts # << >>
           /\ Attempts[Len(Attempts)] = k
           /\ Attempts[1] = bk.out.initial

(* C6: on the multi-resource path of a call that returns, the initial      *)
(* resource is attempted first, then the other resolved resources in       *)
(* catalog order; no resource is attempted twice, none after the first     *)
(* success, and on failure every resource was attempted.  With resources   *)
(* [A,B,C], strategy first and the slot only on C: attempts A, B, C.       *)
C6_AttemptOrder ==
    ( MultiPath /\ bk.out.ret # "raise" ) =>
        /\ Attempts # << >>
        /\ Attempts[1] = bk.out.initial
        /\ \A i \in 1..Len(Attempts) : Attempts[i] \in Catalog
        /\ \A i, j \in 1..Len(Attempts) : i # j => Attempts[i] # Attempts[j]
        /\ \A i, j \in 2..Len(Attempts) :
               i < j => CatalogIndex(Attempts[i]) < CatalogIndex(Attempts[j])
        /\ \A j \in 2..Len(Attempts) : \A c \in Catalog :
               ( c # Attempts[1] /\ CatalogIndex(c) < CatalogIndex(Attempts[j]) )
               => \E i \in 2..(j - 1) : Attempts[i] = c
        /\ \A i \in 1..(Len(Attempts) - 1) : ~Accepts(Attempts[i])
        /\ bk.out.ret = "True" <=> Accepts(Attempts[Len(Attempts)])
        /\ bk.out.ret = "False" => Catalog = { Attempts[i] : i \in 1..Len(Attempts) }
        /\ ( /\ bk.w.matches = << "A", "B", "C" >>
             /\ bk.court_selection = "first"
             /\ \A c \in Courts : Accepts(c) <=> c = "C" )
           => Attempts = << "A", "B", "C" >>

(* C6 witness: resources [A,B,C], strategy first, the slot only on C, and  *)
(* the call has attempted A, B and C and returned True                     *)
C6_Witness ==
    /\ MultiPath
    /\ bk.w.matches = << "A", "B", "C" >>
    /\ bk.court_selection = "first"
    /\ \A c \in Courts : Accepts(c) <=> c = "C"
    /\ Attempts = << "A", "B", "C" >>
    /\ bk.out.ret = "True"

(* C7: when book_slot returns True the facility's remembered hint is the   *)
(* resource on which the reservation succeeded; when it returns False the  *)
(* facility table is what it was before the call                           *)
C7_HintFollowsOutcome ==
    Called =>
        /\ bk.out.ret = "True" =>
              /\ Accepts(Attempts[Len(Attempts)])
              /\ table[bk.facility] = Attempts[Len(Attempts)]
              /\ \A f \in FACILITIES \ { bk.facility } : table[f] = bk.before[f]
        /\ bk.out.ret = "False" => table = bk.before

(* C7 witness: a call that had a remembered hint, missed on the first      *)
(* resource attempted and succeeded on another one, which is the new hint  *)
C7_Witness ==
    /\ Called
    /\ bk.out.ret = "True"
    /\ Len(Attempts) >= 2
    /\ bk.before[bk.facility] # None
    /\ bk.before[bk.facility] # table[bk.facility]
    /\ table[bk.facility] = Attempts[Len(Attempts)]

(* C8 as stated: when every resolved resource of a known facility misses,  *)
(* book_slot returns False and raises nothing, for every strategy and hint *)
C8_ExhaustionReturnsFalse ==
    ( /\ Called
      /\ bk.facility \in FACILITIES
      /\ bk.facility_id = None
      /\ bk.w.http_ok
      /\ Catalog # {}
      /\ \A c \in Catalog : ~Accepts(c) )
    => bk.out.ret = "False"

(* C9: _save_schedule in one process followed by _load_schedule in another *)
(* gives as many intents, in the same order, with the same eight fields    *)
C9_RoundTrip ==
    lastOp.op = "load" =>
        /\ Len(sched) = Len(ui)
        /\ \A i \in 1..Len(ui) :
              /\ sched[i].facility = ui[i].facility
              /\ sched[i].target_date = ui[i].target_date
              /\ sched[i].slot_time = ui[i].slot_time
              /\ sched[i].execute_at = ui[i].execute_at
              /\ sched[i].facility_id = ui[i].facility_id
              /\ sched[i].status = ui[i].status
              /\ sched[i].error = ui[i].error
              /\ sched[i].booking_id = ui[i].booking_id

(* C9 witness: two different intents, one with every optional field set,   *)
(* have been saved and loaded                                              *)
C9_Witness ==
    /\ lastOp.op = "load"
    /\ Len(sched) = 2
    /\ sched[1] # sched[2]
    /\ sched[1].error # None /\ sched[1].facility_id # None /\ sched[1].booking_id # None
    /\ sched[2].execute_at % 60 # 0
    /\ sched[2].error = None

(* the store holds one intent, pending, due later than the preparation margin *)
OnePendingAhead ==
    /\ file.exists
    /\ Len(file.bookings) = 1
    /\ file.bookings[1].status = "pending"
    /\ fromisoformat(file.bookings[1].execute_at) - clock > 10

(* C12: a pass of run_scheduler(daemon=False) over a store with one        *)
(* pending intent due more than 10 s ahead ends the loop: it does not      *)
(* enter _execute_booking, calls book_slot for nothing, leaves the file as *)
(* it is and holds in memory the intent exactly as stored.                 *)
C12_SingleShotExitsEarly ==
    [][ ( pc = "top" /\ ~daemon /\ OnePendingAhead /\ pc' # pc ) =>
          /\ pc' = "exit"
          /\ invoked' = invoked
          /\ file' = file
          /\ sched' = _load_schedule(file, << >>)
          /\ sched'[1].status = "pending" ]_vars

(* C12 witness: the single-shot loop has ended on such a store, having     *)
(* loaded the intent and called book_slot for nothing                      *)
C12_Witness ==
    /\ pc = "exit" /\ ~daemon
    /\ OnePendingAhead
    /\ invoked = {}
    /\ Len(sched) = 1
    /\ sched = _load_schedule(file, << >>)

(* C13 as stated: in the schedule file, an intent whose status is success  *)
(* or failed keeps that status in every later content of the file          *)
C13_TerminalStatusIsFinal ==
    [][ \A i \in 1..Len(file.bookings) : \A j \in 1..Len(file'.bookings) :
          ( /\ file.bookings[i].uid = file'.bookings[j].uid
            /\ file.bookings[i].status \in {"success", "failed"} )
          => file'.bookings[j].status = file.bookings[i].status ]_vars

(* the slot page of court c lists a slot with the requested label *)
Lists(c) == bk.w.st[c] \in Responses

IsPrefix(s, t) == Len(s) <= Len(t) /\ SubSeq(t, 1, Len(s)) = s

(* the attempts of the same call made with dry_run = False and draw pick *)
RealAttempts(pick) ==
    book_slot(bk.before, bk.facility, bk.facility_id, FALSE, bk.court_selection,
              bk.w, pick).attempts

(* C14: a call with dry_run sends no reservation request; it attempts the  *)
(* resources a real run attempts, in the same order, up to the first one   *)
(* that lists the label, and returns True exactly when an attempted        *)
(* resource lists the label                                                *)
C14_DryRun ==
    ( Called /\ bk.dry_run ) =>
        /\ bk.out.submits = << >>
        /\ bk.out.ret = "True" <=> \E i \in 1..Len(Attempts) : Lists(Attempts[i])
        /\ \A i \in 1..(Len(Attempts) - 1) : ~Lists(Attempts[i])
        /\ \E pick \in 1..MaxMatches : IsPrefix(Attempts, RealAttempts(pick))
        /\ bk.court_selection # "random" =>
               \A pick \in 1..MaxMatches : IsPrefix(Attempts, RealAttempts(pick))

(* C14 witness: a dry run on the multi-resource path that found the label  *)
(* on the second resource attempted, where a real run would have gone on   *)
C14_Witness ==
    /\ MultiPath /\ bk.dry_run
    /\ bk.out.ret = "True"
    /\ Len(Attempts) = 2
    /\ bk.w.st[Attempts[2]] = "resp_failure"
    /\ bk.out.submits = << >>

(* C15: a reservation request counts as success only when the answer       *)
(* reports success; after any other answer (failure body, HTTP error,      *)
(* malformed body, request error) the resource is a miss, no exception     *)
(* leaves book_slot and, on the multi-resource path, the next untried      *)
(* resource is attempted, or the call returns False when none is left      *)
C15_SubmissionMiss ==
    ( Called /\ ~bk.dry_run /\ bk.out.ret # "raise" ) =>
        /\ bk.out.ret = "True" =>
              /\ bk.w.st[Attempts[Len(Attempts)]] = "resp_success"
              /\ bk.out.submits # << >>
              /\ bk.out.submits[Len(bk.out.submits)] = Attempts[Len(Attempts)]
        /\ \A i \in 1..Len(Attempts) :
              bk.w.st[Attempts[i]] \in Responses \ { "resp_success" } =>
                 /\ \E k \in 1..Len(bk.out.submits) : bk.out.submits[k] = Attempts[i]
                 /\ \/ i < Len(Attempts)
                    \/ /\ bk.out.ret = "False"
                       /\ MultiPath => Catalog = { Attempts[k] : k \in 1..Len(Attempts) }

(* C15 witness: the first resource answered the request with an HTTP      *)
(* error, the second with a malformed body, and the call went on to the    *)
(* third, which reported success                                           *)
C15_Witness ==
    /\ MultiPath /\ ~bk.dry_run
    /\ Len(Attempts) = 3
    /\ bk.w.st[Attempts[1]] = "resp_http_error"
    /\ bk.w.st[Attempts[2]] = "resp_bad_json"
    /\ bk.w.st[Attempts[3]] = "resp_success"
    /\ bk.out.ret = "True"

(* C20 as stated: on the multi-resource path, for every strategy and every *)
(* remembered hint, an initial resource of the resolved set is selected    *)
(* and attempted: the hint with cached when it is in the set, the first    *)
(* resolved resource with first, some member with random                   *)
C20_InitialSelection ==
    ( MultiPath /\ bk.court_selection \in Strategies ) =>
        /\ bk.out.ret # "raise"
        /\ bk.out.initial \in Catalog
        /\ Attempts # << >> /\ Attempts[1] = bk.out.initial
        /\ ( bk.court_selection = "cached" /\ bk.before[bk.facility] \in Catalog )
             => bk.out.initial = bk.before[bk.facility]
        /\ bk.court_selection = "first" => bk.out.initial = bk.w.matches[1]

(* the uids of the intents in the schedule file *)
Stored == { file.bookings[i].uid : i \in 1..Len(file.bookings) }

(* C16 as stated: an intent the dashboard appended (and did not cancel) is *)
(* in the schedule file after every later write                            *)
C16_AppendedIntentKept ==
    \A u \in 1..nextUid : u \notin cancelled => u \in Stored

(* C17 as stated, its part on the store: an intent removed by              *)
(* cancel_booking is not in the schedule file while its execute_at is      *)
(* still ahead (the loop persists an intent it was executing at or after   *)
(* execute_at only)                                                        *)
C17_CancelledStaysOut ==
    \A i \in 1..Len(file.bookings) :
        file.bookings[i].uid \in cancelled
        => clock >= fromisoformat(file.bookings[i].execute_at)

(* C19 as stated: the loop calls book_slot for an intent at most once *)
C19_AtMostOnce ==
    pc = "book" => sched[cur].uid \notin invoked

(* ------------- the scheduler loop and the credential files ------------- *)
(* The scheduler process at the top of an iteration, the dashboard and the *)
(* credential tools beside it.  The scheduler is either entering its first *)
(* iteration (client just built, last_cookie_check = 0) or the iteration   *)
(* cookie_check_interval seconds after its first one, with nothing         *)
(* scheduled in between.  The session file was issued one hour or nine     *)
(* hours before the origin and is the one the client was built from.       *)
IssueTimes == { 0 - Hours(1), 0 - Hours(MAX_AGE_HOURS + 1) }

CredStarts(t) ==
    { [ StartCred(t) EXCEPT !.session = Session("good", a, a),
                            !.client_auth = a,
                            !.client_loaded_at = s[1],
                            !.last_cookie_check = s[2] ] :
        a \in IssueTimes,
        s \in { << t, LongAgo >>,
                << t - cookie_check_interval, t - cookie_check_interval >> } }

InitCred ==
    /\ clock \in StartTimes
    /\ file = NoFile
    /\ sched = << >>
    /\ ui = << >>
    /\ pc = "top"
    /\ daemon \in BOOLEAN
    /\ cur = 0
    /\ wait = 0
    /\ now = 0
    /\ invoked = {}
    /\ nextUid = 0
    /\ lastOp = NoOp
    /\ cancelled = {}
    /\ table = InitialTable
    /\ bk = NoCall
    /\ cred \in CredStarts(clock)
    /\ daemons = NoDaemons

credUnchanged == << loopVars, file, ui, nextUid, cancelled, table, bk >>

(* the dashboard enqueues one intent with an explicit execute_at: inside   *)
(* the preparation margin, or later than the target                        *)
ScheduleFirst ==
    /\ nextUid = 0
    /\ \E in \in { i \in ScheduleInputs : i[3] # << >> } :
          schedule_booking(in[1], in[2], CHOOSE s \in SlotLabels : TRUE, None, in[3])

(* /api/reload-cookies: RELOAD_SIGNAL_FILE.touch() *)
RaiseSignal ==
    /\ cred' = [ cred EXCEPT !.marker = TRUE ]
    /\ UNCHANGED << credUnchanged, lastOp >>

(* save_cookies_to_session, open(session_file, 'wb'): the file is          *)
(* truncated and does not unpickle until the dump is complete              *)
SaveOpen ==
    /\ cred.session.state # "corrupt"
    /\ cred' = [ cred EXCEPT !.session = Session("corrupt", clock, cred.session.auth_time) ]
    /\ UNCHANGED << credUnchanged, lastOp >>

(* save_cookies_to_session, pickle.dump done, with auth_time = time.time(); *)
(* the dashboard's extraction then touches the marker (signal), the        *)
(* command-line extraction does not                                        *)
SaveClose(signal) ==
    /\ cred.session.state = "corrupt"
    /\ cred' = [ cred EXCEPT !.session = Session("good", clock, clock),
                             !.marker = cred.marker \/ signal ]
    /\ UNCHANGED << credUnchanged, lastOp >>

Save == \E signal \in BOOLEAN : SaveClose(signal)

(* CookieValidator.validate_cookies on the stored file *)
Validate ==
    /\ \E probe \in BOOLEAN :
          lastOp' = [ op |-> "validate",
                      ret |-> validate_cookies(cred.session, probe),
                      stale |-> clock - cred.session.auth_time > Hours(MAX_AGE_HOURS) ]
    /\ UNCHANGED << credUnchanged, cred >>

(* SessionManager.load_session() with the default max_age_hours *)
LoadSession ==
    /\ \E probe \in BOOLEAN :
          LET r == load_session(cred.session, clock, MAX_AGE_HOURS, probe)
          IN /\ lastOp' = [ op |-> "load_session", ret |-> r.ret,
                            stale |-> clock - cred.session.auth_time > Hours(MAX_AGE_HOURS) ]
             /\ cred' = [ cred EXCEPT !.session = r.session ]
    /\ UNCHANGED credUnchanged

NextCred ==
    \/ ScheduleFirst
    \/ RaiseSignal
    \/ SaveOpen
    \/ Save
    \/ Validate
    \/ LoadSession
    \/ LoopPass
    \/ Execute
    \/ LoopWake
    \/ ExecWait
    \/ Book

SpecCred == InitCred /\ [][NextCred]_vars

(* a step of the loop from the top of an iteration: lines 182-186 ran *)
IterationStep == pc = "top" /\ pc' # "top"

(* C11: a stored credential set older than the maximum age (8 hours) is    *)
(* never reported valid by validate_cookies or load_session, whatever the  *)
(* liveness probe answers, and the scheduler's client never holds one when *)
(* it is about to call book_slot.                                          *)
C11_StaleNeverValidNorUsed ==
    /\ (lastOp.op \in {"validate", "load_session"} /\ lastOp.stale) => ~lastOp.ret
    /\ pc = "book" => clock - cred.client_auth <= Hours(MAX_AGE_HOURS)

(* C18 as stated: an iteration that starts with the marker present makes   *)
(* exactly one reload attempt and clears the marker.                       *)
C18_ExactlyOneReload ==
    [][ (IterationStep /\ cred.marker) =>
            (cred'.reloads = 1 /\ ~cred'.marker) ]_vars

(* C18 amended: in an iteration that starts with the marker present the    *)
(* signal handler makes one reload attempt and clears the marker, whether  *)
(* the attempt succeeds or fails and whatever the intents are, before the  *)
(* pending intents are looked at; a second attempt in the same iteration   *)
(* is made only by the automatic refresh, and only when the first attempt  *)
(* failed, the refresh check is due and the session file is newer than the *)
(* client.  Without the marker the handler attempts nothing.               *)
C18_SignalReloadsOnceAndClears ==
    [][ IterationStep =>
          /\ ~cred'.marker
          /\ cred.marker => cred'.reloads \in {1, 2}
          /\ (cred.marker /\ cred'.reloads = 2) =>
                /\ ~ClientLoads(cred.session)
                /\ clock - cred.last_cookie_check >= cookie_check_interval
                /\ cred.session.state # "absent"
                /\ cred.session.mtime > cred.client_loaded_at
          /\ (cred.marker /\ ClientLoads(cred.session)) =>
                /\ cred'.reloads = 1
                /\ cred'.client_auth = cred.session.auth_time
                /\ cred'.client_loaded_at = clock
          /\ ~cred.marker => cred'.reloads <= 1 ]_vars

(* an iteration started with the marker present and a session file that    *)
(* did not load has ended: the marker is gone, the client is the old one   *)
C18_Witness ==
    /\ pc \in {"sleep", "exit", "wait", "book"}
    /\ cred.reloads >= 1
    /\ ~cred.marker
    /\ cred.session.state = "corrupt"

(* --------------- _execute_booking on one intent at a time -------------- *)
(* The scheduler process executes intents that are due, one after the      *)
(* other; the remote system answers warm-up and booking independently: the *)
(* page is served or not, lists one court or two, and each listed court    *)
(* has the slot free or not.                                               *)
ExecWorlds ==
    { [ http_ok |-> TRUE, matches |-> m,
        st |-> [ c \in Courts |-> IF c = "A" THEN a ELSE IF c = "B" THEN b ELSE "no_slot" ] ] :
        m \in { << "A" >>, << "A", "B" >> },
        a \in { "no_slot", "resp_success" }, b \in { "no_slot", "resp_success" } }
    \cup
    { [ http_ok |-> FALSE, matches |-> << >>,
        st |-> [ c \in Courts |-> IF c = "A" THEN a ELSE IF c = "B" THEN b ELSE "no_slot" ] ] :
        a \in { "no_slot", "resp_success" }, b \in { "no_slot", "resp_success" } }

(* the intents: due now, for either facility, with or without facility_id *)
ExecIntents(uid, t) ==
    { ScheduledBooking(uid, f, T30, CHOOSE s \in SlotLabels : TRUE, t, id) :
        f \in FACILITIES, id \in { None, "B" } }

InitExec ==
    /\ clock \in StartTimes
    /\ sched \in { << b >> : b \in ExecIntents(1, clock) }
    /\ file = _save_schedule(sched)
    /\ ui = << >>
    /\ pc = "top"
    /\ daemon = TRUE
    /\ cur = 0
    /\ wait = 0
    /\ now = 0
    /\ invoked = {}
    /\ nextUid = 1
    /\ lastOp = NoOp
    /\ cancelled = {}
    /\ table = InitialTable
    /\ bk = NoCall
    /\ cred = StartCred(clock)
    /\ daemons = NoDaemons

(* _execute_booking up to the call of book_slot (lines 241-262), with the  *)
(* remote system answering warm-up as w                                    *)
ExecWarmUp ==
    /\ pc = "top"
    /\ sched[1].status = "pending"
    /\ \E w \in ExecWorlds :
          LET prep == prepare_booking(table, sched[1].facility, sched[1].facility_id, w)
              ex == ExecPrepare(sched, 1, prep, 0)
          IN /\ sched' = ex.sched
             /\ table' = ex.table
             /\ now' = ex.now
    /\ cur' = 1
    /\ pc' = "book"
    /\ bk' = NoCall
    /\ UNCHANGED << clock, file, ui, daemon, daemons, wait, invoked, nextUid, lastOp, cancelled, cred >>

(* the call of book_slot (lines 265-287) with the remote system answering  *)
(* as w, and _save_schedule(); bk keeps the answers and the table before   *)
ExecCall ==
    /\ pc = "book"
    /\ \E w \in ExecWorlds, pick \in 1..MaxMatches :
          LET out == book_slot(table, sched[cur].facility, sched[cur].facility_id,
                               FALSE, "random", w, pick)
          IN /\ sched' = [ sched EXCEPT ![cur] = Recorded(sched[cur], out) ]
             /\ table' = out.table
             /\ bk' = [ w |-> w, before |-> table, out |-> out ]
    /\ invoked' = invoked \cup { sched[cur].uid }
    /\ file' = _save_schedule(sched')
    /\ pc' = "top"
    /\ cur' = 0
    /\ now' = 0
    /\ UNCHANGED << clock, ui, daemon, daemons, wait, nextUid, lastOp, cancelled, cred >>

(* the next intent that is due replaces the finished one in the store *)
NextIntent ==
    /\ pc = "top"
    /\ sched[1].status \in {"success", "failed"}
    /\ nextUid < MaxIntents
    /\ nextUid' = nextUid + 1
    /\ sched' \in { << b >> : b \in ExecIntents(nextUid + 1, clock) }
    /\ file' = _save_schedule(sched')
    /\ bk' = NoCall
    /\ UNCHANGED << clock, ui, pc, daemon, daemons, cur, wait, now, invoked, lastOp, cancelled,
                    table, cred >>

NextExec == ExecWarmUp \/ ExecCall \/ NextIntent

SpecExec == InitExec /\ [][NextExec]_vars

(* ------------- the scheduler process crashes and is restarted ---------- *)
(* BookingScheduler() in a new process: the client is built from the       *)
(* session file, the list is loaded from the schedule file, the facility   *)
(* table is the one the class defines                                      *)
Restarted(c, t) ==
    [ c EXCEPT !.client_auth = c.session.auth_time,
               !.client_loaded_at = t,
               !.last_cookie_check = LongAgo,
               !.reloads = 0 ]

(* The process dies inside _execute_booking, after booking.status =        *)
(* "executing" and before _save_schedule() of run_scheduler (line 227),    *)
(* and run_scheduler.py is started again.  lastOp keeps the intent that    *)
(* was being executed.                                                     *)
CrashRestart ==
    /\ pc \in {"wait", "book"}
    /\ lastOp.op # "crash"
    /\ ClientLoads(cred.session)
    /\ lastOp' = [ op |-> "crash", ret |-> TRUE, uid |-> sched[cur].uid ]
    /\ sched' = _load_schedule(file, << >>)
    /\ table' = InitialTable
    /\ cred' = Restarted(cred, clock)
    /\ pc' = "top"
    /\ cur' = 0
    /\ wait' = 0
    /\ now' = 0
    /\ UNCHANGED << clock, file, ui, daemon, daemons, invoked, nextUid, cancelled, bk >>

NextCrash ==
    \/ ScheduleFirst
    \/ LoopPass
    \/ Execute
    \/ LoopWake
    \/ ExecWait
    \/ Book
    \/ CrashRestart

SpecCrash == Init /\ [][NextCrash]_vars

(* ------------- the schedule file while it is being written ------------- *)
(* write_text opens the file for writing, which empties it, and writes the *)
(* document afterwards; the scheduler process can read in between.         *)
(* schedule_booking up to that point: the intent is in the dashboard's     *)
(* list, the file is empty                                                 *)
ScheduleOpen ==
    /\ nextUid < MaxIntents
    /\ lastOp.op # "schedule_open"
    /\ \E in \in { i \in ScheduleInputs : i[3] # << >> } :
          ui' = Append(ui, ScheduledBooking(nextUid + 1, in[1], in[2],
                                            CHOOSE s \in SlotLabels : TRUE,
                                            DefaultExecuteAt(in[2], in[3]), None))
    /\ file' = Truncated
    /\ nextUid' = nextUid + 1
    /\ lastOp' = [ op |-> "schedule_open", ret |-> FALSE ]
    /\ UNCHANGED << loopVars, cancelled, table, bk, cred >>

(* the rest of schedule_booking: the document is written *)
ScheduleClose ==
    /\ lastOp.op = "schedule_open"
    /\ file' = _save_schedule(ui)
    /\ lastOp' = [ op |-> "schedule", ret |-> TRUE ]
    /\ UNCHANGED << loopVars, ui, nextUid, cancelled, table, bk, cred >>

NextStore ==
    \/ ScheduleOpen
    \/ ScheduleClose
    \/ LoopPass
    \/ Execute
    \/ LoopWake
    \/ ExecWait
    \/ Book

SpecStore == Init /\ [][NextStore]_vars

(* ---------------- the loop when file operations fail ------------------ *)
(* An iteration with the marker present in which RELOAD_SIGNAL_FILE.unlink *)
(* raises (the marker was removed by someone else, or may not be removed): *)
(* the reload was attempted, the exception leaves run_scheduler, and       *)
(* run_scheduler.py logs it and returns.                                   *)
LoopUnlinkFails ==
    /\ pc = "top"
    /\ cred.marker
    /\ sched' = _load_schedule(file, sched)
    /\ \E gone \in BOOLEAN :
          cred' = [ reload_cookies([ cred EXCEPT !.reloads = 0 ], clock)
                        EXCEPT !.marker = ~gone ]
    /\ pc' = "exit"
    /\ wait' = 0
    /\ UNCHANGED << clock, file, ui, daemon, daemons, cur, now, invoked, nextUid, lastOp, cancelled,
                    table, bk >>

(* The call of book_slot and the recording of its result, after which      *)
(* write_text in _save_schedule raises (disk full, no permission): the     *)
(* exception leaves run_scheduler; the file is as before or emptied.       *)
ExecBookWriteFails(d) ==
    /\ pc = "book"
    /\ \E out \in Booked(sched[cur]) :
          /\ invoked' = invoked \cup { sched[cur].uid }
          /\ sched' = [ sched EXCEPT ![cur] = Recorded(sched[cur], out) ]
          /\ table' = out.table
    /\ file' \in { file, Truncated }
    /\ clock' = clock + d
    /\ pc' = "exit"
    /\ cur' = 0
    /\ now' = 0
    /\ UNCHANGED << ui, daemon, daemons, wait, nextUid, lastOp, cancelled, bk, cred >>

BookWriteFails == \E d \in CallDelays : ExecBookWriteFails(d)

(* the dashboard starts to write its first intent *)
ScheduleOpenFirst ==
    /\ nextUid = 0
    /\ ScheduleOpen

NextFaults ==
    \/ ScheduleOpenFirst
    \/ ScheduleClose
    \/ RaiseSignal
    \/ SaveOpen
    \/ Save
    \/ LoopPass
    \/ Execute
    \/ LoopWake
    \/ ExecWait
    \/ Book
    \/ LoopUnlinkFails
    \/ BookWriteFails

SpecFaults == Init /\ [][NextFaults]_vars

(* ------------- book_slot and a remote system that is silent ------------ *)
(* The timeout argument of each kind of network call of book_slot: the two *)
(* session.get calls pass none, session.post passes 10 seconds.            *)
SUBMIT_TIMEOUT == 10

(* the default of requests: timeout=None, the call waits without limit *)
NoTimeout == 0 - 1

CallKinds == {"discovery", "lookup", "submit"}

CallTimeout ==
    [ k \in CallKinds |-> IF k = "submit" THEN SUBMIT_TIMEOUT ELSE NoTimeout ]

(* the remote system never answers the calls of kind silent ("none": it    *)
(* answers all).  A call with a timeout then raises requests.Timeout: the  *)
(* answers as book_slot sees them                                          *)
Silenced(w, silent) ==
    IF silent = "none" \/ CallTimeout[silent] = NoTimeout THEN w
    ELSE IF silent = "discovery" THEN [ w EXCEPT !.http_ok = FALSE ]
    ELSE IF silent = "lookup" THEN [ w EXCEPT !.st = [ c \in Courts |-> "fetch_error" ] ]
    ELSE [ w EXCEPT !.st = [ c \in Courts |->
                IF w.st[c] \in Responses THEN "resp_exception" ELSE w.st[c] ] ]

(* book_slot makes a call of the kind *)
Makes(kind, facility, facility_id, out) ==
    IF kind = "discovery" THEN facility \in FACILITIES /\ facility_id = None
    ELSE IF kind = "lookup" THEN out.attempts # << >>
    ELSE out.submits # << >>

(* the courts attempted up to the call of the kind that is not answered *)
Reached(kind, out) ==
    IF kind = "discovery" THEN << >>
    ELSE IF kind = "lookup" THEN << out.attempts[1] >>
    ELSE SubSeq(out.attempts, 1,
                CHOOSE i \in 1..Len(out.attempts) :
                    /\ out.attempts[i] = out.submits[1]
                    /\ \A j \in 1..(i - 1) : out.attempts[j] # out.submits[1])

(* book_slot with such a remote system: ret is "hang" when a call without  *)
(* timeout is never answered (the call does not return)                    *)
book_slot_silent(tbl, facility, facility_id, dry_run, court_selection, w, pick, silent) ==
    LET out == book_slot(tbl, facility, facility_id, dry_run, court_selection,
                         Silenced(w, silent), pick)
    IN IF /\ silent \in CallKinds
          /\ CallTimeout[silent] = NoTimeout
          /\ Makes(silent, facility, facility_id, out)
       THEN [ out EXCEPT !.ret = "hang", !.table = tbl,
                         !.resolved = IF silent = "discovery" THEN << >> ELSE out.resolved,
                         !.attempts = Reached(silent, out),
                         !.submits = IF silent = "submit" THEN << out.submits[1] >>
                                     ELSE << >> ]
       ELSE out

NetInputs ==
    { [ facility |-> f, facility_id |-> id, dry_run |-> dr, w |-> w, silent |-> s ] :
        f \in FacilityKeys, id \in { None, "A", "B" }, dr \in BOOLEAN,
        w \in ExecWorlds, s \in CallKinds \cup {"none"} }

(* client.book_slot(...) is called *)
NetCall(in, pick) ==
    /\ bk' = [ facility |-> in.facility, facility_id |-> in.facility_id,
               dry_run |-> in.dry_run, court_selection |-> "random",
               w |-> in.w, before |-> table, silent |-> in.silent,
               out |-> book_slot_silent(table, in.facility, in.facility_id, in.dry_run,
                                        "random", in.w, pick, in.silent) ]
    /\ table' = bk'.out.table
    /\ UNCHANGED << loopVars, file, ui, nextUid, lastOp, cancelled, cred >>

NetRequest ==
    /\ bk = NoCall
    /\ \E in \in NetInputs, pick \in 1..MaxMatches : NetCall(in, pick)

(* the call returns or raises; a call that hangs does neither *)
NetReturn ==
    /\ bk # NoCall
    /\ bk.out.ret # "hang"
    /\ bk' = NoCall
    /\ UNCHANGED << loopVars, file, ui, nextUid, lastOp, cancelled, table, cred >>

NextNet == NetRequest \/ NetReturn

SpecNet == InitBook /\ [][NextNet]_vars

(* ------------- the loop and the session file, without marker ---------- *)
(* The command-line extraction rewrites the session file beside the loop   *)
(* and load_session removes one it rejects; nobody touches the marker, so  *)
(* every reload is one of the periodic check                               *)
SaveQuiet == SaveClose(FALSE)

NextRefresh ==
    \/ ScheduleFirst
    \/ SaveOpen
    \/ SaveQuiet
    \/ LoadSession
    \/ LoopPass
    \/ Execute
    \/ LoopWake
    \/ ExecWait
    \/ Book

SpecRefresh == InitCred /\ [][NextRefresh]_vars

(* ---------------- the daemon loop that keeps running ------------------- *)
(* The daemon and a dashboard that only enqueues intents whose execute_at  *)
(* lies within the time the model covers.  The scheduler process is never  *)
(* stopped: each step of the loop that can be taken is taken (every call   *)
(* of book_slot and of prepare_booking returns).                           *)
InitLive ==
    /\ Init
    /\ daemon

ScheduleNear ==
    \E in \in { i \in ScheduleInputs : DefaultExecuteAt(i[2], i[3]) <= MaxClock },
       s \in SlotLabels :
        schedule_booking(in[1], in[2], s, None, in[3])

NextLive ==
    \/ ScheduleNear
    \/ LoopPass
    \/ Execute
    \/ LoopWake
    \/ ExecWait
    \/ Book

(* the next step of the scheduler process, whatever it is *)
DaemonStep == LoopPass \/ Execute \/ LoopWake \/ ExecWait \/ Book

LoopFairness == WF_vars(DaemonStep)

SpecLive == InitLive /\ [][NextLive]_vars /\ LoopFairness

(* --------- the dashboard's requests and the daemons it starts ---------- *)
(* The Flask server handles requests in threads; each /api/schedule calls  *)
(* ensure_scheduler_running() after it stored the intent.  A daemon ends   *)
(* when run_scheduler.py returns (no session file, or an exception that    *)
(* left run_scheduler).                                                    *)
InitPid ==
    /\ Init
    /\ daemon

pidUnchanged == << clock, file, sched, ui, pc, daemon, cur, wait, now, invoked,
                  nextUid, lastOp, cancelled, table, bk, cred >>

(* ensure_scheduler_running() of request r up to the return of             *)
(* is_scheduler_running(): True ends the call                              *)
EnsureCheck(r) ==
    /\ daemons.at[r] = "idle"
    /\ LET c == is_scheduler_running(daemons)
       IN daemons' = [ daemons EXCEPT !.pid_file = c.pid_file,
                                      !.at[r] = IF c.ret THEN "idle" ELSE "start" ]
    /\ UNCHANGED pidUnchanged

(* the rest of ensure_scheduler_running() of request r:                    *)
(* start_scheduler_process()                                               *)
EnsureStart(r) ==
    /\ daemons.at[r] = "start"
    /\ daemons.started < MaxStarts
    /\ daemons' = [ start_scheduler_process(daemons) EXCEPT !.at[r] = "idle" ]
    /\ UNCHANGED pidUnchanged

(* a daemon process ends *)
DaemonEnds ==
    /\ \E p \in daemons.live : daemons' = [ daemons EXCEPT !.live = daemons.live \ {p} ]
    /\ UNCHANGED pidUnchanged

Check == \E r \in Requests : EnsureCheck(r)

Start == \E r \in Requests : EnsureStart(r)

NextPid == Check \/ Start \/ DaemonEnds

SpecPid == InitPid /\ [][NextPid]_vars

(* -------- run_scheduler(daemon=False) and a silent remote system ------- *)
(* The single-shot loop beside a dashboard that enqueues intents; the      *)
(* remote system may leave a call unanswered.                              *)
InitOnce ==
    /\ Init
    /\ ~daemon

(* A pass that finds the next booking due and whose warm-up never returns: *)
(* prepare_booking is in session.get of _get_all_facility_ids, which has   *)
(* no timeout.  The intent is "executing" in memory, the file is untouched *)
WarmUpHangs ==
    /\ pc = "top"
    /\ LET loaded == _load_schedule(file, sched)
       IN /\ Decision(loaded) = "due"
          /\ loaded[NextBooking(loaded)].facility \in FACILITIES
          /\ loaded[NextBooking(loaded)].facility_id = None
          /\ CallTimeout["discovery"] = NoTimeout
          /\ sched' = AtWarmUp(loaded, NextBooking(loaded))
          /\ cur' = NextBooking(loaded)
    /\ pc' = "hung"
    /\ cred' = IterationHead(cred, clock)
    /\ UNCHANGED << clock, file, ui, daemon, daemons, wait, now, invoked, nextUid, lastOp, cancelled,
                    table, bk >>

(* The call of book_slot that never returns: one of its calls without      *)
(* timeout is not answered                                                 *)
BookHangs ==
    /\ pc = "book"
    /\ \E w \in LoopWorlds, pick \in 1..MaxMatches, silent \in CallKinds :
          book_slot_silent(table, sched[cur].facility, sched[cur].facility_id,
                           FALSE, "random", w, pick, silent).ret = "hang"
    /\ invoked' = invoked \cup { sched[cur].uid }
    /\ pc' = "hung"
    /\ UNCHANGED << clock, file, sched, ui, daemon, daemons, cur, wait, now, nextUid, lastOp,
                    cancelled, table, bk, cred >>

NextOnce ==
    \/ Schedule
    \/ LoopPass
    \/ Execute
    \/ ExecWait
    \/ Book
    \/ WarmUpHangs
    \/ BookHangs

SpecOnce == InitOnce /\ [][NextOnce]_vars

(* ====================== the claims, C21 to C30 ======================== *)
(* the call took a single-resource path: a hint from the caller, or a      *)
(* facilities page that resolves to one resource                           *)
FastPath ==
    /\ Called
    /\ bk.facility \in FACILITIES
    /\ \/ bk.facility_id # None
       \/ bk.w.http_ok /\ Cardinality(Catalog) = 1

(* the one resource of the single-resource path *)
FastResource == IF bk.facility_id # None THEN bk.facility_id ELSE bk.w.matches[1]

(* C21: when book_slot is given facility_id, or the catalog resolves to     *)
(* exactly one resource, exactly that resource is attempted and no other,  *)
(* and book_slot returns True iff that resource lists the label and the    *)
(* submission (or the dry run) succeeds; otherwise it returns False.       *)
C21_FastPathOneResource ==
    FastPath =>
        /\ Attempts = << FastResource >>
        /\ bk.out.ret = (IF Accepts(FastResource) THEN "True" ELSE "False")

(* C21 witness: a page that names one resource twice, booked on it *)
C21_Witness ==
    /\ FastPath
    /\ bk.facility_id = None
    /\ Len(bk.w.matches) >= 2
    /\ bk.out.ret = "True"

(* the resources the page resolves to during the call of book_slot *)
ExecCatalog == { bk.w.matches[i] : i \in 1..Len(bk.w.matches) }

(* C22: when the scheduler has executed an intent for a facility that      *)
(* resolves to two or more resources and at least one of them has the slot *)
(* and accepts the reservation, the intent ends in success, whatever       *)
(* facility_id the intent or the facility table held.                      *)
C22_HintNotAuthoritative ==
    ( /\ bk # NoCall
      /\ sched[1].facility \in FACILITIES
      /\ bk.w.http_ok
      /\ Cardinality(ExecCatalog) >= 2
      /\ \E c \in ExecCatalog : bk.w.st[c] = "resp_success" )
    => sched[1].status = "success"

(* a step of the loop into _execute_booking, up to the call of book_slot *)
ExecuteStep == pc = "top" /\ pc' \in {"wait", "book"}

(* C23: within one execution, warm-up (prepare_booking) runs while the     *)
(* intent is still pending and changes no field of it; after warm-up only  *)
(* the status has changed, to executing; then the loop waits until         *)
(* execute_at when that is still ahead, then book_slot is invoked.         *)
C23_WarmUpBeforeMark ==
    [][ ExecuteStep =>
          LET loaded == _load_schedule(file, sched)
          IN /\ AtWarmUp(loaded, cur')[cur'].status = "pending"
             /\ sched' = [ loaded EXCEPT ![cur'].status = "executing" ]
             /\ pc' = "wait" => clock' + wait' = sched'[cur'].execute_at ]_vars

(* the status the schedule file holds for the intent uid, None if absent *)
StoredStatus(f, uid) ==
    IF \E i \in 1..Len(f.bookings) : f.bookings[i].uid = uid
    THEN f.bookings[CHOOSE i \in 1..Len(f.bookings) : f.bookings[i].uid = uid].status
    ELSE None

(* C24: when the scheduler process crashes after it marked an intent       *)
(* executing and before it persisted the outcome, the schedule file shows  *)
(* the intent with status executing, and the restarted loop does not       *)
(* enter _execute_booking for that intent again.                           *)
C24_CrashLeavesExecuting ==
    [][ /\ (lastOp.op # "crash" /\ lastOp'.op = "crash")
            => StoredStatus(file', lastOp'.uid) = "executing"
        /\ (lastOp'.op = "crash" /\ pc' \in {"wait", "book"})
            => sched'[cur'].uid # lastOp'.uid ]_vars

(* the schedule file exists and does not parse *)
StoreBroken == file.exists /\ ~file.parses

(* C27: in an iteration that finds a schedule file that does not parse,    *)
(* _load_schedule leaves the list in memory empty and raises nothing, and  *)
(* the loop goes on as with no pending intent: in daemon mode it sleeps    *)
(* IDLE_SLEEP seconds and retries, in single-shot mode it exits; no intent *)
(* is executed and the file is not written.                                *)
C27_BrokenStoreIsEmpty ==
    [][ (pc = "top" /\ StoreBroken /\ pc' # pc) =>
          /\ sched' = << >>
          /\ pc' = (IF daemon THEN "sleep" ELSE "exit")
          /\ daemon => wait' = IDLE_SLEEP
          /\ invoked' = invoked
          /\ file' = file ]_vars

(* C27 witness: the loop has passed over a file that the dashboard was     *)
(* writing its second intent to                                            *)
C27_Witness ==
    /\ pc \in {"sleep", "exit"}
    /\ StoreBroken
    /\ sched = << >>
    /\ Len(ui) >= 2

(* C25: in daemon mode no failure inside an iteration ends the loop: after *)
(* a failed credential reload, a failure to remove the reload marker, or a *)
(* failure to read or write the schedule file, run_scheduler goes on with  *)
(* its next iteration.                                                     *)
C25_DaemonLoopSurvives == [][ (daemon /\ pc # "exit") => pc' # "exit" ]_vars

(* a step of the loop that calls book_slot and ends the execution *)
BookStep == pc = "book" /\ pc' # "book"

(* C26: executing an intent whose facility is not a known key marks it     *)
(* failed with an error that names the unknown facility, writes that to    *)
(* the schedule file, sends no reservation request, leaves the other       *)
(* intents as they are, and in daemon mode the loop goes to its next       *)
(* iteration.                                                              *)
C26_UnknownFacilityFailsIntent ==
    [][ (BookStep /\ sched[cur].facility \notin FACILITIES) =>
          /\ sched'[cur].status = "failed"
          /\ sched'[cur].error = "Unknown facility"
          /\ \A i \in 1..Len(sched) : i # cur => sched'[i] = sched[i]
          /\ file' = _save_schedule(sched')
          /\ StoredStatus(file', sched[cur].uid) = "failed"
          /\ \A out \in Booked(sched[cur]) : out.submits = << >>
          /\ table' = table
          /\ pc' = (IF daemon THEN "top" ELSE "exit") ]_vars

(* C26 witness: the daemon loop has failed an intent for an unknown        *)
(* facility and then booked another intent                                 *)
C26_Witness ==
    \E i, j \in 1..Len(sched) :
        /\ sched[i].facility \notin FACILITIES
        /\ sched[i].status = "failed"
        /\ sched[i].error = "Unknown facility"
        /\ StoredStatus(file, sched[i].uid) = "failed"
        /\ sched[j].status = "success"
        /\ sched[j].uid > sched[i].uid

(* C28: every network call of book_slot (resource discovery, slot lookup,  *)
(* submission) has a timeout, and book_slot for a known facility ends with *)
(* True or False also when the remote system never answers the calls of    *)
(* one kind.                                                               *)
C28_EveryCallTimesOut ==
    (bk # NoCall /\ bk.facility \in FACILITIES) =>
        /\ \A k \in CallKinds :
              Makes(k, bk.facility, bk.facility_id, bk.out) => CallTimeout[k] # NoTimeout
        /\ bk.out.ret \in {"True", "False"}

AttemptedSet == { Attempts[i] : i \in 1..Len(Attempts) }

(* C29: on the multi-resource path a resource whose slot lookup fails or   *)
(* whose page lacks the label is a miss and the remaining resources are    *)
(* still attempted: a call that does not end in success has attempted      *)
(* every resolved resource, and every attempt before the last was a miss.  *)
(* When the facilities page names no resource, discovery raises instead of *)
(* returning an empty list and book_slot returns False with no attempt and *)
(* no submission.                                                          *)
C29_MissesAbsorbed ==
    /\ MultiPath =>
          /\ bk.out.ret # "True" => AttemptedSet = Catalog
          /\ \A i \in 1..(Len(Attempts) - 1) : ~Accepts(Attempts[i])
    /\ ( /\ Called
         /\ bk.facility \in FACILITIES
         /\ bk.facility_id = None
         /\ bk.w.http_ok
         /\ bk.w.matches = << >> )
       => /\ ~_get_all_facility_ids(bk.w).ok
          /\ bk.out.ret = "False"
          /\ Attempts = << >>
          /\ bk.out.submits = << >>

(* C30: the intent an iteration selects for execution has status pending   *)
(* in the list as reloaded in that iteration, and no pending intent of     *)
(* that list has a strictly earlier execute_at; an intent that is          *)
(* executing, success or failed is never selected.                         *)
C30_EarliestPendingSelected ==
    [][ ExecuteStep =>
          LET loaded == _load_schedule(file, sched)
          IN /\ cur' \in 1..Len(loaded)
             /\ loaded[cur'].status = "pending"
             /\ \A j \in 1..Len(loaded) :
                   loaded[j].status = "pending"
                   => loaded[j].execute_at >= loaded[cur'].execute_at ]_vars

(* C30 witness: of two pending intents the loop took the second of the     *)
(* list, whose execute_at is the earlier one                               *)
C30_Witness ==
    /\ pc \in {"wait", "book"}
    /\ Len(sched) >= 2
    /\ cur = 2
    /\ sched[1].status = "pending"
    /\ sched[1].execute_at > sched[2].execute_at

(* ====================== the claims, C31 to C40 ======================== *)
(* a step of the loop into one of its sleeps (lines 194 and 214) *)
LoopSleepStep == pc = "top" /\ pc' = "sleep"

(* C31: in daemon mode a sleep of the loop outside an execution is         *)
(* positive and at most 60 s: 60 s when the reloaded store holds nothing   *)
(* pending, min(time_until - 10, 60) when the earliest pending intent is   *)
(* more than 10 s away.  The pass that goes to sleep has reloaded the      *)
(* store and run the signal and refresh checks, and the sleep returns to   *)
(* the top of the loop after exactly that time, so the next reload comes   *)
(* at most 60 s after the last one.                                        *)
C31_LoopSleepBounded ==
    [][ /\ LoopSleepStep =>
              /\ daemon
              /\ wait' > 0 /\ wait' <= 60
              /\ sched' = _load_schedule(file, sched)
              /\ cred' = IterationHead(cred, clock)
              /\ Pending(sched') = {} => wait' = 60
              /\ Pending(sched') # {} =>
                    LET time_until == sched'[NextBooking(sched')].execute_at - clock
                    IN /\ time_until > 10
                       /\ wait' = IF time_until - 10 < 60 THEN time_until - 10 ELSE 60
        /\ (pc = "sleep" /\ pc' # pc) =>
              /\ pc' = "top"
              /\ clock' = clock + wait
              /\ clock' - clock <= 60 ]_vars

(* C31 witness: after an earlier step that took time the daemon has       *)
(* reloaded the store, found the earliest pending intent more than 70 s    *)
(* away and is in the capped sleep of 60 s                                 *)
C31_Witness ==
    /\ daemon /\ pc = "sleep"
    /\ clock > 35
    /\ Pending(sched) # {}
    /\ wait = 60

(* a step of run_scheduler that returns control to it *)
OnceStep == LoopPass \/ Execute \/ ExecWait \/ Book

(* C32 as stated: run_scheduler(daemon=False) always terminates (it has    *)
(* ended, or its next step can be taken) and has called book_slot for at   *)
(* most one intent, for none before it is about to call it.                *)
C32_SingleShotTerminates ==
    ~daemon =>
        /\ pc = "exit" \/ ENABLED OnceStep
        /\ Cardinality(invoked) <= 1
        /\ pc = "book" => invoked = {}

(* the exit rules of C32, on the steps of the single-shot loop: nothing    *)
(* pending or the earliest pending more than 10 s away ends the loop with  *)
(* no call of book_slot and no write; otherwise the earliest pending       *)
(* intent is the one executed, and the return of book_slot records its     *)
(* outcome, writes the store and ends the loop with every other intent     *)
(* as it was loaded, pending ones included                                 *)
SingleShotRules ==
    [][ ~daemon =>
          /\ (pc = "top" /\ pc' \notin {"top", "hung"}) =>
                LET loaded == _load_schedule(file, sched)
                IN /\ Decision(loaded) # "due" =>
                        /\ pc' = "exit" /\ invoked' = invoked /\ file' = file
                        /\ sched' = loaded
                   /\ Decision(loaded) = "due" =>
                        /\ pc' \in {"wait", "book"}
                        /\ cur' = NextBooking(loaded)
                        /\ invoked' = invoked /\ file' = file
          /\ (pc = "book" /\ pc' \notin {"book", "hung"}) =>
                /\ pc' = "exit"
                /\ invoked' = { sched[cur].uid }
                /\ sched'[cur].status \in {"success", "failed"}
                /\ file' = _save_schedule(sched')
                /\ \A i \in 1..Len(sched) : i # cur => sched'[i] = sched[i] ]_vars

(* the credential side when _reload_cookies_if_needed is called in the     *)
(* iteration that starts now: after the signal check                       *)
AfterSignalCheck == _check_reload_signal([ cred EXCEPT !.reloads = 0 ], clock)

(* the periodic check of the iteration that starts now is due *)
CheckDue == clock - AfterSignalCheck.last_cookie_check >= cookie_check_interval

(* C33: the periodic check looks at the session file only when 300 s have  *)
(* passed since last_cookie_check, which it then sets to the current time  *)
(* and which never goes back, so two inspections are at least 300 s apart. *)
(* At an inspection reload_cookies is called exactly when the file exists  *)
(* and its modification time is later than client_loaded_at; a reload that *)
(* loads the file replaces the client and stamps client_loaded_at.  When   *)
(* the check is not due, or the file is missing or not modified, the       *)
(* client and client_loaded_at are left as they were.                      *)
C33_PeriodicCheck ==
    [][ /\ cred'.last_cookie_check >= cred.last_cookie_check
        /\ IterationStep =>
              LET mid == AfterSignalCheck
                  modified == /\ mid.session.state # "absent"
                              /\ mid.session.mtime > mid.client_loaded_at
              IN /\ ~CheckDue => cred' = mid
                 /\ CheckDue => cred'.last_cookie_check = clock
                 /\ cred'.reloads - mid.reloads = IF CheckDue /\ modified THEN 1 ELSE 0
                 /\ (CheckDue /\ modified /\ ClientLoads(mid.session)) =>
                        /\ cred'.client_auth = mid.session.auth_time
                        /\ cred'.client_loaded_at = clock
                 /\ ~(CheckDue /\ modified) =>
                        /\ cred'.client_auth = mid.client_auth
                        /\ cred'.client_loaded_at = mid.client_loaded_at ]_vars

(* C33 witness: no marker was ever raised; the periodic check found the    *)
(* session file rewritten after the client was loaded and reloaded it: the *)
(* client holds the new credential set                                     *)
C33_Witness ==
    /\ pc # "top"
    /\ cred.reloads = 1
    /\ cred.client_loaded_at = clock
    /\ cred.client_auth = cred.session.auth_time
    /\ cred.client_auth > 0

(* C34 as stated: at most one scheduler daemon started by the dashboard is *)
(* alive at any time                                                       *)
C34_AtMostOneDaemon == Cardinality(daemons.live) <= 1

(* a step of the scheduler loop *)
LoopStep == pc' # pc

(* the stored execute_at of an intent is the same before and after a step *)
ExecuteAtKept ==
    \A i \in 1..Len(file.bookings) : \A j \in 1..Len(file'.bookings) :
        file.bookings[i].uid = file'.bookings[j].uid
        => file'.bookings[j].execute_at = file.bookings[i].execute_at

(* in the list the loop holds, a step changes at most status, error and    *)
(* facility_id of the intent it selected from the reloaded list            *)
OnlySelectedInMemory ==
    LET base == IF pc = "top" THEN _load_schedule(file, sched) ELSE sched
        sel == IF pc = "top" THEN cur' ELSE cur
    IN /\ Len(sched') = Len(base)
       /\ \A i \in 1..Len(base) :
             /\ i # sel => sched'[i] = base[i]
             /\ i = sel =>
                   /\ base[i].status \in {"pending", "executing"}
                   /\ sched'[i] = [ base[i] EXCEPT !.status = sched'[i].status,
                                                   !.error = sched'[i].error,
                                                   !.facility_id = sched'[i].facility_id ]

(* every stored intent other than the selected one is stored unchanged     *)
(* after the step                                                          *)
OthersKeptInStore ==
    \A i \in 1..Len(file.bookings) :
        (cur = 0 \/ file.bookings[i].uid # sched[cur].uid)
        => \E j \in 1..Len(file'.bookings) : file'.bookings[j] = file.bookings[i]

(* C35 as stated: no step changes the execute_at of a stored intent, and a *)
(* step of the loop changes only status, error and facility_id of the      *)
(* intent it selected, in its list and in the store.                       *)
C35_OnlySelectedChanges ==
    [][ /\ ExecuteAtKept
        /\ LoopStep => (OnlySelectedInMemory /\ OthersKeptInStore) ]_vars

(* the parts of C35 that do not depend on what the dashboard wrote during  *)
(* an execution                                                            *)
C35_ExecuteAtAndMemory ==
    [][ /\ ExecuteAtKept
        /\ LoopStep => OnlySelectedInMemory ]_vars

(* the error of an intent goes with its status: an error only with failed, *)
(* failed only with an error, success with none                            *)
ErrorMatchesStatus(status, has_error) ==
    /\ has_error => status = "failed"
    /\ status = "failed" => has_error
    /\ status = "success" => ~has_error

(* C36: in the schedule file, and in the lists the two processes hold, an  *)
(* intent has an error only if its status is failed, every failed intent   *)
(* has an error and no intent with status success has one.                 *)
C36_ErrorOnlyWhenFailed ==
    /\ \A i \in 1..Len(file.bookings) :
          ErrorMatchesStatus(file.bookings[i].status, file.bookings[i].error # << >>)
    /\ \A i \in 1..Len(sched) : ErrorMatchesStatus(sched[i].status, sched[i].error # None)
    /\ \A i \in 1..Len(ui) : ErrorMatchesStatus(ui[i].status, ui[i].error # None)

(* C36 witness: the store holds an intent the loop marked failed, with its *)
(* error, beside one it marked success, without                            *)
C36_Witness ==
    \E i, j \in 1..Len(file.bookings) :
        /\ file.bookings[i].status = "failed" /\ file.bookings[i].error # << >>
        /\ file.bookings[j].status = "success" /\ file.bookings[j].error = << >>

(* C37 as stated: every intent in the schedule file has a facility that is *)
(* a key of FastBookingClient.FACILITIES                                   *)
C37_StoredFacilityKnown ==
    \A i \in 1..Len(file.bookings) : file.bookings[i].facility \in FACILITIES

(* the intent uid is in the schedule file with one of the statuses *)
StoredWith(uid, statuses) ==
    \E i \in 1..Len(file.bookings) :
        /\ file.bookings[i].uid = uid
        /\ file.bookings[i].status \in statuses

(* C38 as stated: with a daemon loop that keeps running, book_slot calls   *)
(* that return and no cancellation, every intent that is pending in the    *)
(* schedule file is later in the file with status success or failed.       *)
C38_PendingEventuallySettled ==
    \A uid \in 1..MaxIntents :
        StoredWith(uid, {"pending"}) ~> StoredWith(uid, {"success", "failed"})

(* the positions in the sequence of submissions that the remote system     *)
(* answered with success                                                   *)
Accepted == { i \in 1..Len(bk.out.submits) : _submit_booking(bk.w.st[bk.out.submits[i]]) }

(* the number of resources one call may try: one with a hint, the resolved *)
(* resources otherwise                                                     *)
MaxTries == IF bk.facility_id # None THEN 1 ELSE Len(bk.out.resolved)

(* C39: one call of book_slot gets at most one reservation request         *)
(* accepted; it looks up and submits to no court twice, so it makes at     *)
(* most N lookups and N submissions for N resolved courts, one with a      *)
(* hint; an accepted submission is the last one, made on the last court    *)
(* looked up.                                                              *)
C39_OneAcceptedSubmission ==
    Called =>
        /\ Cardinality(Accepted) <= 1
        /\ Len(bk.out.submits) <= MaxTries
        /\ Len(Attempts) <= MaxTries
        /\ \A i, j \in 1..Len(Attempts) : Attempts[i] = Attempts[j] => i = j
        /\ \A i \in Accepted :
              /\ i = Len(bk.out.submits)
              /\ bk.out.submits[i] = Attempts[Len(Attempts)]
              /\ bk.out.ret = "True"

(* C39 witness: three courts resolved; the first one tried refused the     *)
(* request, the second accepted, the third was not looked up               *)
C39_Witness ==
    /\ Called
    /\ bk.facility_id = None
    /\ Len(bk.out.resolved) = 3
    /\ Len(bk.out.submits) = 2
    /\ Len(Attempts) = 2
    /\ Accepted = {2}
    /\ \E c \in Catalog : bk.w.st[c] = "resp_success" /\ c # Attempts[2]

(* an iteration of the loop in which reload_cookies is called on a session *)
(* file that is missing or does not unpickle                               *)
FailedReloadStep ==
    /\ IterationStep
    /\ ~ClientLoads(cred.session)
    /\ cred'.reloads >= 1

(* C40 as stated: a failed reload leaves the client and client_loaded_at   *)
(* as they were, and the periodic check that comes next (in the same       *)
(* iteration after a failed signalled reload, when it is due) calls        *)
(* reload_cookies again.                                                   *)
C40_FailedReloadRetried ==
    [][ FailedReloadStep =>
          /\ cred'.client_auth = cred.client_auth
          /\ cred'.client_loaded_at = cred.client_loaded_at
          /\ (cred.marker /\ CheckDue) => cred'.reloads = 2 ]_vars

(* C40 amended: a failed reload leaves the client, client_loaded_at and    *)
(* last_cookie_check (but for the stamp of the periodic check itself) as   *)
(* they were, so a booking that follows uses the credentials loaded        *)
(* before; the periodic check that comes next calls reload_cookies again   *)
(* exactly when the session file exists and is newer than client_loaded_at *)
(* and makes no attempt while the file is missing.                         *)
C40_FailedReloadKeepsClient ==
    [][ FailedReloadStep =>
          /\ cred'.client_auth = cred.client_auth
          /\ cred'.client_loaded_at = cred.client_loaded_at
          /\ cred'.last_cookie_check = IF CheckDue THEN clock ELSE cred.last_cookie_check
          /\ (cred.marker /\ CheckDue) =>
                ( cred'.reloads = 2 <=>
                     /\ cred.session.state # "absent"
                     /\ cred.session.mtime > cred.client_loaded_at )
          /\ cred.session.state = "absent" => (cred.marker /\ cred'.reloads = 1) ]_vars

(* C40 witness: a signalled reload found the session file missing; the     *)
(* periodic check was due and attempted nothing; the loop is about to call *)
(* book_slot with the client it had                                        *)
C40_Witness ==
    /\ pc = "book"
    /\ cred.reloads = 1
    /\ cred.session.state = "absent"
    /\ cred.last_cookie_check = now
    /\ cred.client_loaded_at < now
    /\ cred.client_auth < 0

====
